---- MODULE Spec2Model ----
(***************************************************************************)
(* A model of jsontoschdoc.py: the conversion of a JSON document (a list   *)
(* of records, each a dict of field name -> raw JSON value) into the       *)
(* FileHeader stream of a schematic container.                             *)
(*                                                                         *)
(* Representation.                                                         *)
(*  - A raw JSON value is [t, n, s, hi]: t is "int", "str" or "bool"; n is *)
(*    the number (0/1 for a bool); s is the text of a string, a sequence   *)
(*    of characters.  A character is a one-character string; NonAscii      *)
(*    stands for one character outside ASCII (U+00E9).                     *)
(*  - Python integers have no width.  An integer is kept as hi and n and   *)
(*    is hi * 2^31 + n, with hi = 0 for the numbers below 2^31 and hi = 1, *)
(*    2 (and 0 <= n < 2^31) for the numbers of the next two ranges, which  *)
(*    reach and pass the limit 2^32 of struct.pack('<I').                  *)
(*  - A record is a function from its keys to raw values (a Python dict).  *)
(*  - The bytes a handler produces are kept as the sequence of tokens they *)
(*    spell: [lead, key, val, raw] stands for lead key "=" val raw, where  *)
(*    val is text (characters, or bytes of text) and raw the bytes of a    *)
(*    struct.pack; NL is the b"\n" that ends a record.                     *)
(*  - stream is what has been written through the stream handle, in order. *)
(***************************************************************************)
EXTENDS Integers, Sequences, FiniteSets, TLC

VARIABLES data, pos, stream, pc, exc, conditions, writes, hasFileHeader,
          hasRecords, streamState, oleState, failAt

vars == <<data, pos, stream, pc, exc, conditions, writes, hasFileHeader,
          hasRecords, streamState, oleState, failAt>>

(***************************************************************************)
(* Raw values                                                              *)
(***************************************************************************)
IntV(n) == [t |-> "int", n |-> n, s |-> <<>>, hi |-> 0]

\* the integer hi * 2^31 + n
BigV(hi, n) == [t |-> "int", n |-> n, s |-> <<>>, hi |-> hi]

StrV(s) == [t |-> "str", n |-> 0, s |-> s, hi |-> 0]

BoolV(b) == [t |-> "bool", n |-> IF b THEN 1 ELSE 0, s |-> <<>>, hi |-> 0]

NonAscii == "U+00E9"

\* dict.get(key, default)
get(record, key, default) == IF key \in DOMAIN record THEN record[key] ELSE default

(***************************************************************************)
(* Sequences.  An operator that reads an argument several times binds it   *)
(* first (v \in {arg}), so that the argument is evaluated once.            *)
(***************************************************************************)
RECURSIVE ConcatFrom(_, _)
ConcatFrom(ss, k) == IF k > Len(ss) THEN <<>> ELSE ss[k] \o ConcatFrom(ss, k + 1)

\* the concatenation of a sequence of sequences
Concat(ss) == CHOOSE r \in {ConcatFrom(v, 1) : v \in {ss}} : TRUE

RECURSIVE JoinTextFrom(_, _)
JoinTextFrom(cs, k) == IF k > Len(cs) THEN "" ELSE cs[k] \o JoinTextFrom(cs, k + 1)

\* the string made of the characters cs
JoinText(cs) == CHOOSE r \in {JoinTextFrom(v, 1) : v \in {cs}} : TRUE

(***************************************************************************)
(* Python's conversions                                                    *)
(***************************************************************************)
DigitChars == <<"0", "1", "2", "3", "4", "5", "6", "7", "8", "9">>

IsDigit(c) == \E d \in 1..10 : DigitChars[d] = c

DigitVal(c) == (CHOOSE d \in 1..10 : DigitChars[d] = c) - 1

Pow10 == <<1, 10, 100, 1000, 10000, 100000, 1000000, 10000000, 100000000, 1000000000>>

\* the decimal digits of n >= 0, the leading digit first
DecDigits(n) ==
    LET Digits(m) ==
            LET len == IF m = 0 THEN 1 ELSE Cardinality({d \in 1..10 : m >= Pow10[d]})
            IN  [k \in 1..len |-> DigitChars[((m \div Pow10[len - k + 1]) % 10) + 1]]
    IN  CHOOSE r \in {Digits(m) : m \in {n}} : TRUE

\* str(n) of an integer: its decimal digits, with a sign when negative
str_int(n) == IF n < 0 THEN <<"-">> \o DecDigits(-n) ELSE DecDigits(n)

\* str() of the integer hi * 2^31 + n, added up in two halves of five decimal
\* digits: 2^31 = 21474 83648, 2^32 = 42949 67296
str_num(hi, n) ==
    LET Digits(low, high) ==
            DecDigits(high + (low \div 100000))
            \o [k \in 1..5 |-> DigitChars[(((low % 100000) \div Pow10[6 - k]) % 10) + 1]]
    IN  CASE hi = 0 -> str_int(n)
          [] hi = 1 -> CHOOSE r \in {Digits(low, 21474 + (n \div 100000)) :
                                       low \in {83648 + (n % 100000)}} : TRUE
          [] OTHER -> CHOOSE r \in {Digits(low, 42949 + (n \div 100000)) :
                                      low \in {67296 + (n % 100000)}} : TRUE

\* str(v), the text an f-string puts for a raw value
str(v) ==
    CASE v.t = "int" -> str_num(v.hi, v.n)
      [] v.t = "bool" -> IF v.n = 1 THEN <<"T", "r", "u", "e">>
                         ELSE <<"F", "a", "l", "s", "e">>
      [] OTHER -> v.s

\* s.strip(), of the blank
Strip(s) ==
    LET inked == {k \in 1..Len(s) : s[k] # " "}
    IN  IF inked = {} THEN <<>>
        ELSE SubSeq(s, CHOOSE k \in inked : \A j \in inked : k <= j,
                       CHOOSE k \in inked : \A j \in inked : k >= j)

RECURSIVE DigitsValueFrom(_, _, _)
DigitsValueFrom(s, k, acc) ==
    IF k > Len(s) THEN acc ELSE DigitsValueFrom(s, k + 1, 10 * acc + DigitVal(s[k]))

\* int(s) of a string: blanks stripped, an optional sign, then digits only.
\* (The strings of the model hold no underscore and no digit outside ASCII, and
\* spell numbers below 2^31.)
int_str(s) ==
    LET Parse(body) ==
            LET signed == body # <<>> /\ Head(body) \in {"+", "-"}
                digits == IF signed THEN Tail(body) ELSE body
            IN  IF digits = <<>> \/ \E k \in 1..Len(digits) : ~IsDigit(digits[k])
                THEN [exc |-> "ValueError", n |-> 0, hi |-> 0]
                ELSE [exc |-> "", hi |-> 0,
                      n |-> IF signed /\ Head(body) = "-"
                            THEN -DigitsValueFrom(digits, 1, 0)
                            ELSE DigitsValueFrom(digits, 1, 0)]
    IN  CHOOSE r \in {Parse(body) : body \in {Strip(s)}} : TRUE

\* int(v) of a raw value
int(v) == IF v.t = "str" THEN int_str(v.s) ELSE [exc |-> "", n |-> v.n, hi |-> v.hi]

\* bool(v): the truth value of a raw value
truthy(v) == IF v.t = "str" THEN v.s # <<>> ELSE v.n # 0 \/ v.hi # 0

\* v == 'text'
eq_text(v, text) == v.t = "str" /\ v.s = text

\* the bytes of one character under UTF-8
utf8_char(c) == IF c = NonAscii THEN <<"0xC3", "0xA9">> ELSE <<c>>

utf8_bytes(s) == Concat([k \in 1..Len(s) |-> utf8_char(s[k])])

\* v.encode(codec): a str only, and ASCII only under 'ascii'
encode(v, codec) ==
    IF v.t # "str" THEN [exc |-> "AttributeError", b |-> <<>>]
    ELSE IF codec = "ascii" /\ \E k \in 1..Len(v.s) : v.s[k] = NonAscii
    THEN [exc |-> "UnicodeEncodeError", b |-> <<>>]
    ELSE [exc |-> "", b |-> utf8_bytes(v.s)]

\* the text repr() gives for one byte inside b'...'.  (The strings of the
\* model hold no quote, no backslash and no control character.)
repr_byte(b) ==
    CASE b = "0xC3" -> <<"\\", "x", "c", "3">>
      [] b = "0xA9" -> <<"\\", "x", "a", "9">>
      [] OTHER -> <<b>>

\* str(b) of a bytes object, as an f-string formats it: b'...'
repr_bytes(bs) ==
    <<"b", "'">> \o Concat([k \in 1..Len(bs) |-> repr_byte(bs[k])]) \o <<"'">>

\* the low four bytes of any integer, with no error for a value outside
\* 0..2^32-1
pack_I_wraps(hi, n) ==
    [exc |-> "",
     b |-> <<n % 256, (n \div 256) % 256, (n \div 65536) % 256,
             ((128 * hi) + ((n \div 16777216) % 256)) % 256>>]

\* the four bytes with the high byte first, as struct.pack('>I', v) gives them
pack_I_big_endian(hi, n) ==
    IF n < 0 \/ hi > 1 THEN [exc |-> "struct.error", b |-> <<>>]
    ELSE [exc |-> "",
          b |-> <<(128 * hi) + ((n \div 16777216) % 256), (n \div 65536) % 256,
                  (n \div 256) % 256, n % 256>>]

\* struct.pack('<I', v) of the integer v = hi * 2^31 + n: four bytes, the low
\* byte first; struct.error outside 0..2^32-1
pack_I(hi, n) ==
    IF n < 0 \/ hi > 1 THEN [exc |-> "struct.error", b |-> <<>>]
    ELSE [exc |-> "",
          b |-> <<n % 256, (n \div 256) % 256, (n \div 65536) % 256,
                  (128 * hi) + ((n \div 16777216) % 256)>>]

(***************************************************************************)
(* Tokens, and the parts a handler is made of.  A part is what one field   *)
(* of a handler contributes: the exception its evaluation raises, or its   *)
(* tokens.                                                                 *)
(***************************************************************************)
Tok(lead, key, val) == [lead |-> lead, key |-> key, val |-> val, raw |-> <<>>]

TokRaw(lead, key, val, raw) == [lead |-> lead, key |-> key, val |-> val, raw |-> raw]

NL == [lead |-> "\n", key |-> "", val |-> <<>>, raw |-> <<>>]

Ok(toks) == [exc |-> "", toks |-> toks]

Raise(e) == [exc |-> e, toks |-> <<>>]

\* statements in sequence: the first exception ends them
Join(ps) ==
    LET Joined(v) ==
            IF \E k \in 1..Len(v) : v[k].exc # ""
            THEN Raise(v[CHOOSE k \in 1..Len(v) :
                          /\ v[k].exc # ""
                          /\ \A j \in 1..(k - 1) : v[j].exc = ""].exc)
            ELSE Ok(Concat([k \in 1..Len(v) |-> v[k].toks]))
    IN  CHOOSE r \in {Joined(v) : v \in {ps}} : TRUE

\* f'X{i}'
IndexedKey(name, i) == name \o JoinText(str_int(i))

(***************************************************************************)
(* The idioms the handlers are written in, one operator each               *)
(***************************************************************************)
\* b"|RECORD=n"
RecordTok(text) == Ok(<<Tok("|", "RECORD", text)>>)

\* a literal f"|KEY=text"
Const(key, text) == Ok(<<Tok("|", key, text)>>)

\* f"|KEY={int(v)}"
IntField(key, v) ==
    LET Field(r) ==
            IF r.exc # "" THEN Raise(r.exc) ELSE Ok(<<Tok("|", key, str_num(r.hi, r.n))>>)
    IN  CHOOSE p \in {Field(r) : r \in {int(v)}} : TRUE

\* a lookup that puts 0 for an absent key, whatever the default of the call
int_get_zero(record, key, default) == IntField(key, get(record, key, IntV(0)))

\* int(record.get(key, default))
int_get(record, key, default) == IntField(key, get(record, key, IntV(default)))

\* int(record[key])
int_req(record, key) ==
    IF key \in DOMAIN record THEN IntField(key, record[key]) ELSE Raise("KeyError")

\* if key in record: int(record[key])
int_if(record, key) ==
    IF key \in DOMAIN record THEN IntField(key, record[key]) ELSE Ok(<<>>)

\* f"|KEY={v.encode(codec)}": the f-string formats the bytes object as b'...'
ReprField(key, v, codec) ==
    LET Field(r) ==
            IF r.exc # "" THEN Raise(r.exc) ELSE Ok(<<Tok("|", key, repr_bytes(r.b))>>)
    IN  CHOOSE p \in {Field(r) : r \in {encode(v, codec)}} : TRUE

\* record.get(key, default).encode(codec)
repr_get(record, key, default, codec) ==
    ReprField(key, get(record, key, StrV(default)), codec)

\* record[key].encode(codec)
repr_req(record, key, codec) ==
    IF key \in DOMAIN record THEN ReprField(key, record[key], codec)
    ELSE Raise("KeyError")

\* if key in record: record[key].encode(codec)
repr_if(record, key, codec) ==
    IF key \in DOMAIN record THEN ReprField(key, record[key], codec) ELSE Ok(<<>>)

\* f"|KEY={record.get(key, default)}": the raw value, as str() gives it
raw_get(record, key, default) == Ok(<<Tok("|", key, str(get(record, key, default)))>>)

\* f"|KEY={record[key]}"
raw_req(record, key) ==
    IF key \in DOMAIN record THEN Ok(<<Tok("|", key, str(record[key]))>>)
    ELSE Raise("KeyError")

Flag(key, b) == Ok(<<Tok("|", key, IF b THEN <<"T">> ELSE <<"F">>)>>)

\* 'T' if record.get(key, default) else 'F'
flag_truthy_get(record, key, default) == Flag(key, truthy(get(record, key, default)))

\* 'T' if record[key] else 'F'
flag_truthy_req(record, key) ==
    IF key \in DOMAIN record THEN Flag(key, truthy(record[key])) ELSE Raise("KeyError")

\* 'T' if record.get(key, 'F') == 'T' else 'F'
flag_eqT_get(record, key) ==
    Flag(key, eq_text(get(record, key, StrV(<<"F">>)), <<"T">>))

\* if cond: the statements ps
When(cond, ps) == IF cond THEN Join(ps) ELSE Ok(<<>>)

\* "...".encode(codec) of a finished f-string: 'ascii' refuses a character
\* outside ASCII that a raw value brought in
fstring_encode(part, codec) ==
    LET Encoded(p) ==
            IF p.exc # "" THEN p
            ELSE IF /\ codec = "ascii"
                    /\ \E k \in 1..Len(p.toks) :
                           \E j \in 1..Len(p.toks[k].val) : p.toks[k].val[j] = NonAscii
            THEN Raise("UnicodeEncodeError")
            ELSE Ok([k \in 1..Len(p.toks) |->
                        [p.toks[k] EXCEPT !.val = utf8_bytes(@)]])
    IN  CHOOSE r \in {Encoded(p) : p \in {part}} : TRUE

\* struct.pack('<I', int(record[key])) appended after b"|KEY=", if key in record
packed_if(record, key) ==
    LET Field(r) ==
            IF r.exc # "" THEN Raise(r.exc)
            ELSE IF pack_I(r.hi, r.n).exc # "" THEN Raise(pack_I(r.hi, r.n).exc)
            ELSE Ok(<<TokRaw("|", key, <<>>, pack_I(r.hi, r.n).b)>>)
    IN  IF key \notin DOMAIN record THEN Ok(<<>>)
        ELSE CHOOSE p \in {Field(r) : r \in {int(record[key])}} : TRUE

\* b"|OUT=" + record[key].encode('utf-8'), if key in record
bytes_if(record, key, outkey) ==
    LET Field(r) == IF r.exc # "" THEN Raise(r.exc) ELSE Ok(<<Tok("|", outkey, r.b)>>)
    IN  IF key \notin DOMAIN record THEN Ok(<<>>)
        ELSE CHOOSE p \in {Field(r) : r \in {encode(record[key], "utf-8")}} : TRUE

\* b"|KEY=" + (b'T' if record[key] == 'T' else b'F'), if key in record
flagbytes_if(record, key) ==
    IF key \notin DOMAIN record THEN Ok(<<>>)
    ELSE Flag(key, eq_text(record[key], <<"T">>))

\* the transform argument of append_if_present, one name per lambda in use:
\* the exception it raises, str() of what it returns, and int() of that
Transform(transform, v) ==
    LET Encoded(r) == [exc |-> r.exc, text |-> repr_bytes(r.b), num |-> int_str(r.b)]
        Flagged(b) == [exc |-> "", text |-> IF b THEN <<"T">> ELSE <<"F">>,
                       num |-> [exc |-> "ValueError", n |-> 0, hi |-> 0]]
    IN  CASE transform = "encode_ascii" ->
                CHOOSE t \in {Encoded(r) : r \in {encode(v, "ascii")}} : TRUE
          [] transform = "encode_utf8" ->
                CHOOSE t \in {Encoded(r) : r \in {encode(v, "utf-8")}} : TRUE
          [] transform = "T_if_x" -> Flagged(truthy(v))
          [] transform = "T_if_x_eq_T" -> Flagged(eq_text(v, <<"T">>))
          [] transform = "T_if_x_eq_True" -> Flagged(eq_text(v, <<"T", "r", "u", "e">>))
          [] OTHER -> [exc |-> "", text |-> str(v), num |-> int(v)]

\* an append that puts an empty value for an absent key
append_placeholder(record, key, format_string, transform, prefix) ==
    IF key \notin DOMAIN record THEN Ok(<<Tok("|" \o prefix, key, <<>>)>>)
    ELSE fstring_encode(Ok(<<Tok("|" \o prefix, key, str(record[key]))>>), "ascii")

\* append_if_present(data, record, key, format_string, transform, prefix): what
\* it appends to data; "" stands for an argument left at None
append_if_present(record, key, format_string, transform, prefix) ==
    LET Appended(value) ==
            IF value.exc # "" THEN Raise(value.exc)
            ELSE IF format_string # ""
            THEN IF value.num.exc # "" THEN Raise(value.num.exc)
                 ELSE IF pack_I(value.num.hi, value.num.n).exc # ""
                 THEN Raise(pack_I(value.num.hi, value.num.n).exc)
                 ELSE Ok(<<TokRaw("|" \o prefix, key, <<>>,
                                  pack_I(value.num.hi, value.num.n).b)>>)
            ELSE fstring_encode(Ok(<<Tok("|" \o prefix, key, value.text)>>), "ascii")
    IN  IF key \notin DOMAIN record THEN Ok(<<>>)
        ELSE CHOOSE p \in {Appended(value) :
                              value \in {Transform(transform, record[key])}} : TRUE

\* the common call, append_if_present(data, record, key)
append(record, key) == append_if_present(record, key, "", "", "")

\* what a handler did: the exception it raised (or ""), the tokens it wrote to
\* the stream, and the number of stream.write calls it made
Wrote(part, n) ==
    LET Done(p) ==
            IF p.exc # "" THEN [exc |-> p.exc, out |-> <<>>, writes |-> 0]
            ELSE [exc |-> "", out |-> p.toks \o <<NL>>, writes |-> n]
    IN  CHOOSE r \in {Done(p) : p \in {part}} : TRUE

(***************************************************************************)
(* The handlers.  Each gives what handler(stream, record) does: see Wrote. *)
(* Where a name is defined twice in the file, the later definition is the  *)
(* one record_handlers holds, and the one modelled.                        *)
(***************************************************************************)
DefaultHeader ==
      <<"P", "r", "o", "t", "e", "l", " ", "f", "o", "r", " ", "W", "i",
      "n", "d", "o", "w", "s", " ", "-", " ", "S", "c", "h", "e", "m",
      "a", "t", "i", "c", " ", "C", "a", "p", "t", "u", "r", "e", " ",
      "B", "i", "n", "a", "r", "y", " ", "F", "i", "l", "e", " ", "V",
      "e", "r", "s", "i", "o", "n", " ", "5", ".", "0">>

handle_header(record) ==
    Wrote(fstring_encode(Join(<<
        repr_get(record, "HEADER", DefaultHeader, "utf-8"),
        int_get(record, "WEIGHT", 0),
        int_get(record, "MINORVERSION", 0),
        repr_get(record, "UNIQUEID", <<>>, "utf-8")>>), "utf-8"), 1)

\* lines 33-36: without the override key the default handed to .encode is the
\* bytes object description, which has no encode
component_description(record) ==
    IF "COMPONENTDESCRIPTION" \notin DOMAIN record THEN Ok(<<>>)
    ELSE Join(<<
        repr_req(record, "COMPONENTDESCRIPTION", "ascii"),
        IF "%UTF8%COMPONENTDESCRIPTION" \in DOMAIN record
        THEN repr_req(record, "%UTF8%COMPONENTDESCRIPTION", "utf-8")
        ELSE Raise("AttributeError")>>)

handle_component(record) ==
    Wrote(Join(<<
        RecordTok(<<"1">>),
        repr_get(record, "LIBREFERENCE", <<>>, "ascii"),
        component_description(record),
        int_get(record, "PARTCOUNT", 1),
        int_get(record, "DISPLAYMODECOUNT", 0),
        int_get(record, "INDEXINSHEET", -1),
        int_get(record, "CURRENTPARTID", -1),
        int_get(record, "LOCATION.X", 0),
        int_get(record, "LOCATION.Y", 0),
        flag_truthy_get(record, "ISMIRRORED", BoolV(FALSE)),
        flag_truthy_get(record, "PARTIDLOCKED", BoolV(FALSE)),
        flag_truthy_get(record, "DESIGNATORLOCKED", BoolV(FALSE)),
        flag_truthy_get(record, "PINSMOVEABLE", BoolV(FALSE)),
        int_get(record, "AREACOLOR", 11599871),
        int_get(record, "COLOR", 128),
        repr_if(record, "LIBRARYPATH", "ascii"),
        repr_if(record, "SOURCELIBRARYNAME", "ascii"),
        repr_if(record, "SHEETPARTFILENAME", "ascii"),
        repr_if(record, "TARGETFILENAME", "ascii"),
        repr_if(record, "UNIQUEID", "ascii"),
        repr_if(record, "NOTUSEDBTABLENAME", "ascii"),
        repr_if(record, "DESIGNITEMID", "ascii"),
        repr_if(record, "DATABASETABLENAME", "ascii"),
        repr_if(record, "ALIASLIST", "ascii")>>), 1)

handle_pin(record) ==
    Wrote(Join(<<
        RecordTok(<<"2">>),
        int_get(record, "OWNERINDEX", 0),
        int_get(record, "OWNERPARTID", -1),
        int_get(record, "PINLENGTH", 0),
        int_get(record, "LOCATION.X", 0),
        int_get(record, "LOCATION.Y", 0),
        int_get(record, "ELECTRICAL", 0),
        int_if(record, "OWNERPARTDISPLAYMODE"),
        repr_if(record, "DESCRIPTION", "ascii"),
        int_get(record, "SYMBOL_OUTER", 0),
        int_get(record, "SYMBOL_OUTEREDGE", 0),
        int_get(record, "SYMBOL_INNEREDGE", 0),
        When("NAME" \in DOMAIN record, <<
            repr_req(record, "NAME", "ascii"),
            int_get(record, "NAME_CUSTOMFONTID", 4),
            int_get(record, "NAME_CUSTOMPOSITION_MARGIN", -7),
            int_get(record, "PINNAME_POSITIONCONGLOMERATE", 0)>>),
        When("DESIGNATOR" \in DOMAIN record, <<
            repr_req(record, "DESIGNATOR", "ascii"),
            int_get(record, "DESIGNATOR_CUSTOMPOSITION_MARGIN", 9),
            int_get(record, "PINDESIGNATOR_POSITIONCONGLOMERATE", 0)>>),
        repr_if(record, "SWAPIDPIN", "ascii"),
        repr_if(record, "%UTF8%SWAPIDPART", "utf-8")>>), 1)

handle_ieee_symbol(record) ==
    Wrote(Join(<<
        RecordTok(<<"3">>),
        int_get(record, "COLOR", 255),
        int_req(record, "LOCATION.X"),
        int_req(record, "LOCATION.Y"),
        int_req(record, "SYMBOL"),
        Const("ISNOTACCESIBLE", <<"T">>),
        int_req(record, "SCALEFACTOR"),
        int_req(record, "OWNERPARTID"),
        int_get(record, "OWNERPARTDISPLAYMODE", 0),
        int_get(record, "CURRENTPARTID", 0)>>), 1)

handle_label(record) ==
    Wrote(Join(<<
        RecordTok(<<"4">>),
        int_req(record, "OWNERINDEX"),
        flag_eqT_get(record, "ISNOTACCESIBLE"),
        int_req(record, "INDEXINSHEET"),
        int_req(record, "OWNERPARTID"),
        int_req(record, "LOCATION.X"),
        int_req(record, "LOCATION.Y"),
        int_get(record, "COLOR", 0),
        flag_eqT_get(record, "ISMIRRORED"),
        int_get(record, "ORIENTATION", 0),
        int_get(record, "JUSTIFICATION", 0),
        int_get(record, "FONTID", 1),
        repr_get(record, "TEXT", <<>>, "utf-8"),
        flag_eqT_get(record, "GRAPHICALLYLOCKED")>>), 1)

\* for i in range(1, count + 1): int(record[f'X{i}']), int(record[f'Y{i}'])
control_points(record, count) ==
    Join([i \in 1..count |->
            Join(<<int_req(record, IndexedKey("X", i)),
                   int_req(record, IndexedKey("Y", i))>>)])

\* the fields are evaluated first, the control points are written first
handle_bezier(record) ==
    LET Built(fields, location_count) ==
            IF fields.exc # "" THEN Raise(fields.exc)
            ELSE IF location_count.exc # "" THEN Raise(location_count.exc)
            ELSE Join(<<RecordTok(<<"5">>),
                        control_points(record, location_count.n),
                        fields>>)
    IN  Wrote(CHOOSE p \in {Built(fields, location_count) :
                fields \in {Join(<<
                    int_req(record, "OWNERINDEX"),
                    flag_eqT_get(record, "ISNOTACCESIBLE"),
                    int_req(record, "OWNERPARTID"),
                    int_req(record, "LINEWIDTH"),
                    int_req(record, "COLOR")>>)},
                location_count \in {int(get(record, "LOCATIONCOUNT", IntV(4)))}} : TRUE,
              1)

\* for i in range(1, count + 1): append_if_present of the two keys
present_points(record, count, xname, yname, prefix) ==
    Join([i \in 1..count |->
            Join(<<append_if_present(record, IndexedKey(xname, i), "", "", prefix),
                   append_if_present(record, IndexedKey(yname, i), "", "", prefix)>>)])

handle_polyline(record) ==
    LET location_count == int(get(record, "LOCATIONCOUNT", IntV(0)))
    IN  Wrote(Join(<<
            RecordTok(<<"6">>),
            append(record, "OWNERINDEX"),
            append(record, "ISNOTACCESIBLE"),
            append(record, "INDEXINSHEET"),
            append(record, "OWNERPARTID"),
            append(record, "OWNERPARTDISPLAYMODE"),
            append(record, "LINEWIDTH"),
            append(record, "COLOR"),
            append(record, "STARTLINESHAPE"),
            append(record, "ENDLINESHAPE"),
            append(record, "LINESHAPESIZE"),
            IF location_count.exc # "" THEN Raise(location_count.exc)
            ELSE present_points(record, location_count.n, "X", "Y", "|")>>), 1)

\* if countkey in record: the loop over int(record[countkey]) points
counted_points(record, countkey, xname, yname) ==
    IF countkey \notin DOMAIN record THEN Ok(<<>>)
    ELSE LET count == int(record[countkey])
         IN  IF count.exc # "" THEN Raise(count.exc)
             ELSE present_points(record, count.n, xname, yname, "")

handle_polygon(record) ==
    Wrote(Join(<<
        RecordTok(<<"7">>),
        append(record, "OWNERINDEX"),
        append_if_present(record, "ISNOTACCESIBLE", "", "T_if_x_eq_T", ""),
        append(record, "INDEXINSHEET"),
        append(record, "OWNERPARTID"),
        append(record, "OWNERPARTDISPLAYMODE"),
        append(record, "LINEWIDTH"),
        append(record, "COLOR"),
        append(record, "AREACOLOR"),
        append_if_present(record, "ISSOLID", "", "T_if_x_eq_T", ""),
        append_if_present(record, "IGNOREONLOAD", "", "T_if_x_eq_T", ""),
        counted_points(record, "LOCATIONCOUNT", "X", "Y"),
        counted_points(record, "EXTRALOCATIONCOUNT", "EX", "EY")>>), 1)

handle_ellipse(record) ==
    Wrote(Join(<<
        RecordTok(<<"8">>),
        append(record, "OWNERINDEX"),
        append_if_present(record, "ISNOTACCESIBLE", "", "T_if_x_eq_T", ""),
        append(record, "INDEXINSHEET"),
        append(record, "OWNERPARTID"),
        append(record, "RADIUS"),
        append(record, "SECONDARYRADIUS"),
        append(record, "COLOR"),
        append(record, "AREACOLOR"),
        append_if_present(record, "ISSOLID", "", "T_if_x_eq_T", ""),
        append(record, "LOCATION.X"),
        append(record, "LOCATION.Y"),
        append(record, "LINEWIDTH")>>), 1)

handle_piechart(record) == Wrote(RecordTok(<<"9">>), 1)

\* the flags are evaluated where the code reads them, and written as read
handle_round_rectangle(record) ==
    Wrote(fstring_encode(Join(<<
        RecordTok(<<"1", "0">>),
        int_req(record, "OWNERINDEX"),
        raw_get(record, "ISNOTACCESIBLE", StrV(<<"T">>)),
        int_req(record, "INDEXINSHEET"),
        int_req(record, "OWNERPARTID"),
        int_get(record, "OWNERPARTDISPLAYMODE", 0),
        int_req(record, "LOCATION.X"),
        int_req(record, "LOCATION.Y"),
        int_req(record, "CORNER.X"),
        int_req(record, "CORNER.Y"),
        int_get(record, "CORNERXRADIUS", 0),
        int_get(record, "CORNERYRADIUS", 0),
        int_req(record, "LINEWIDTH"),
        int_req(record, "COLOR"),
        int_get(record, "AREACOLOR", 0),
        raw_get(record, "ISSOLID", StrV(<<"F">>))>>), "ascii"), 1)

\* float(v) then str(): the number with its fraction, as in 90.0
FloatField(key, v) ==
    LET r == int(v)
    IN  IF r.exc # "" THEN Raise(r.exc)
        ELSE Ok(<<Tok("|", key, str_num(r.hi, r.n) \o <<".", "0">>)>>)

\* float(record[key])
float_req(record, key) ==
    IF key \in DOMAIN record THEN FloatField(key, record[key]) ELSE Raise("KeyError")

handle_elliptical_arc(record) ==
    Wrote(Join(<<
        RecordTok(<<"1", "1">>),
        int_req(record, "OWNERINDEX"),
        Const("ISNOTACCESIBLE", <<"T">>),
        int_req(record, "INDEXINSHEET"),
        int_req(record, "OWNERPARTID"),
        int_req(record, "OWNERPARTDISPLAYMODE"),
        int_req(record, "LOCATION.X"),
        int_req(record, "LOCATION.Y"),
        int_req(record, "RADIUS"),
        int_get(record, "RADIUS_FRAC", 0),
        int_req(record, "SECONDARYRADIUS"),
        int_get(record, "SECONDARYRADIUS_FRAC", 0),
        int_req(record, "LINEWIDTH"),
        float_req(record, "STARTANGLE"),
        float_req(record, "ENDANGLE"),
        int_req(record, "COLOR")>>), 1)

handle_arc(record) ==
    Wrote(Join(<<
        RecordTok(<<"1", "2">>),
        append(record, "OWNERINDEX"),
        append(record, "ISNOTACCESIBLE"),
        append(record, "INDEXINSHEET"),
        append(record, "OWNERPARTID"),
        append(record, "OWNERPARTDISPLAYMODE"),
        append(record, "LOCATION.X"),
        append(record, "LOCATION.Y"),
        append(record, "RADIUS"),
        append(record, "RADIUS_FRAC"),
        append(record, "LINEWIDTH"),
        append(record, "STARTANGLE"),
        append(record, "ENDANGLE"),
        append(record, "COLOR")>>), 1)

handle_line(record) ==
    Wrote(Join(<<
        RecordTok(<<"1", "3">>),
        append(record, "OWNERINDEX"),
        append(record, "ISNOTACCESIBLE"),
        append(record, "INDEXINSHEET"),
        append(record, "OWNERPARTID"),
        append(record, "OWNERPARTDISPLAYMODE"),
        append(record, "LOCATION.X"),
        append(record, "LOCATION.Y"),
        append(record, "CORNER.X"),
        append(record, "CORNER.Y"),
        append(record, "LINEWIDTH"),
        append(record, "COLOR")>>), 1)

\* a failure of stream.write is caught and logged here (lines 1139-1142)
handle_rectangle(record) ==
    Wrote(Join(<<
        RecordTok(<<"1", "4">>),
        packed_if(record, "LOCATION.X"),
        packed_if(record, "LOCATION.Y"),
        packed_if(record, "CORNER.X"),
        packed_if(record, "CORNER.Y"),
        packed_if(record, "LINEWIDTH"),
        packed_if(record, "OWNERINDEX")>>), 1)

handle_sheet_symbol(record) ==
    Wrote(fstring_encode(Join(<<
        RecordTok(<<"1", "5">>),
        int_req(record, "INDEXINSHEET"),
        Const("OWNERPARTID", <<"-", "1">>),
        int_req(record, "LOCATION.X"),
        int_req(record, "LOCATION.Y"),
        int_req(record, "XSIZE"),
        int_req(record, "YSIZE"),
        int_req(record, "COLOR"),
        int_req(record, "AREACOLOR"),
        Const("ISSOLID", <<"T">>),
        raw_req(record, "UNIQUEID"),
        raw_get(record, "SYMBOLTYPE", StrV(<<"N", "o", "r", "m", "a", "l">>))>>), "ascii"), 1)

handle_sheet_entry(record) ==
    Wrote(fstring_encode(Join(<<
        RecordTok(<<"1", "6">>),
        int_req(record, "AREACOLOR"),
        raw_req(record, "ARROWKIND"),
        int_req(record, "COLOR"),
        int_req(record, "DISTANCEFROMTOP"),
        int_req(record, "DISTANCEFROMTOP_FRAC1"),
        repr_req(record, "NAME", "ascii"),
        int_req(record, "OWNERPARTID"),
        int_req(record, "OWNERINDEX"),
        int_req(record, "TEXTCOLOR"),
        int_req(record, "TEXTFONTID"),
        repr_req(record, "TEXTSTYLE", "ascii"),
        int_req(record, "INDEXINSHEET"),
        repr_req(record, "HARNESSTYPE", "ascii"),
        int_req(record, "SIDE"),
        int_req(record, "STYLE"),
        int_req(record, "IOTYPE")>>), "ascii"), 1)

handle_power_port(record) ==
    Wrote(Join(<<
        RecordTok(<<"1", "7">>),
        append(record, "INDEXINSHEET"),
        append(record, "OWNERPARTID"),
        append(record, "STYLE"),
        append_if_present(record, "SHOWNETNAME", "", "T_if_x", ""),
        append(record, "LOCATION.X"),
        append(record, "LOCATION.Y"),
        append(record, "ORIENTATION"),
        append(record, "COLOR"),
        append_if_present(record, "TEXT", "", "encode_ascii", ""),
        append_if_present(record, "ISCROSSSHEETCONNECTOR", "", "T_if_x", ""),
        append_if_present(record, "UNIQUEID", "", "encode_ascii", ""),
        append(record, "FONTID")>>), 1)

handle_port(record) ==
    Wrote(Join(<<
        RecordTok(<<"1", "8">>),
        append(record, "INDEXINSHEET"),
        append(record, "OWNERPARTID"),
        append(record, "STYLE"),
        append(record, "IOTYPE"),
        append(record, "ALIGNMENT"),
        append(record, "WIDTH"),
        append(record, "LOCATION.X"),
        append(record, "LOCATION.Y"),
        append(record, "COLOR"),
        append(record, "AREACOLOR"),
        append(record, "TEXTCOLOR"),
        append_if_present(record, "NAME", "", "encode_ascii", ""),
        append_if_present(record, "UNIQUEID", "", "encode_ascii", ""),
        append(record, "FONTID"),
        append(record, "HEIGHT"),
        append_if_present(record, "HARNESSTYPE", "", "encode_ascii", "")>>), 1)

handle_no_erc(record) ==
    Wrote(Join(<<
        RecordTok(<<"2", "2">>),
        append(record, "INDEXINSHEET"),
        append(record, "OWNERPARTID"),
        append(record, "LOCATION.X"),
        append(record, "LOCATION.Y"),
        append(record, "COLOR"),
        append_if_present(record, "ISACTIVE", "", "T_if_x_eq_True", ""),
        append(record, "ORIENTATION"),
        append_if_present(record, "SUPPRESSALL", "", "T_if_x_eq_True", ""),
        append_if_present(record, "SYMBOL", "", "encode_ascii", ""),
        append_if_present(record, "UNIQUEID", "", "encode_ascii", "")>>), 1)

handle_net_label(record) ==
    Wrote(Join(<<
        RecordTok(<<"2", "5">>),
        append(record, "INDEXINSHEET"),
        append(record, "OWNERPARTID"),
        append(record, "LOCATION.X"),
        append(record, "LOCATION.Y"),
        append(record, "COLOR"),
        append(record, "FONTID"),
        append_if_present(record, "TEXT", "", "encode_ascii", ""),
        append(record, "ORIENTATION"),
        append_if_present(record, "UNIQUEID", "", "encode_ascii", "")>>), 1)

handle_junction(record) ==
    Wrote(Join(<<
        RecordTok(<<"2", "9">>),
        append(record, "INDEXINSHEET"),
        append_if_present(record, "LOCKED", "", "T_if_x", ""),
        append(record, "OWNERPARTID"),
        append(record, "LOCATION.X"),
        append(record, "LOCATION.Y"),
        append(record, "COLOR")>>), 1)

handle_image(record) ==
    Wrote(Join(<<
        RecordTok(<<"3", "0">>),
        int_req(record, "OWNERINDEX"),
        int_req(record, "INDEXINSHEET"),
        int_get(record, "OWNERPARTID", -1),
        int_req(record, "LOCATION.X"),
        int_req(record, "LOCATION.Y"),
        int_req(record, "CORNER.X"),
        int_req(record, "CORNER.Y"),
        flag_truthy_req(record, "EMBEDIMAGE"),
        repr_req(record, "FILENAME", "ascii"),
        flag_truthy_req(record, "KEEPASPECT")>>), 1)

handle_sheet(record) ==
    Wrote(fstring_encode(Join(<<
        RecordTok(<<"3", "1">>),
        int_get(record, "FONTIDCOUNT", 1),
        int_get(record, "SHEETSTYLE", 0),
        int_get(record, "SYSTEMFONT", 1),
        raw_get(record, "BORDERON", StrV(<<"T">>)),
        raw_get(record, "TITLEBLOCKON", StrV(<<"T">>)),
        raw_get(record, "SNAPGRIDON", StrV(<<"T">>)),
        raw_get(record, "VISIBLEGRIDON", StrV(<<"T">>)),
        int_get(record, "SNAPGRIDSIZE", 10),
        int_get(record, "VISIBLEGRIDSIZE", 10),
        int_get(record, "CUSTOMX", 0),
        int_get(record, "CUSTOMY", 0),
        raw_get(record, "USECUSTOMSHEET", StrV(<<"F">>)),
        int_get(record, "WORKSPACEORIENTATION", 0),
        int_get(record, "CUSTOMXZONES", 1),
        int_get(record, "CUSTOMYZONES", 1),
        int_get(record, "CUSTOMMARGINWIDTH", 20),
        int_get(record, "DISPLAY_UNIT", 4),
        raw_get(record, "REFERENCEZONESON", StrV(<<"T">>)),
        raw_get(record, "SHOWTEMPLATEGRAPHICS", StrV(<<"T">>)),
        raw_get(record, "TEMPLATEFILENAME", StrV(<<>>)),
        int_get(record, "AREACOLOR", 16777215)>>), "utf-8"), 2)

handle_designator(record) ==
    Wrote(Join(<<
        RecordTok(<<"3", "4">>),
        packed_if(record, "OWNERINDEX"),
        packed_if(record, "INDEXINSHEET"),
        packed_if(record, "OWNERPARTID"),
        packed_if(record, "LOCATION.X"),
        packed_if(record, "LOCATION.Y"),
        packed_if(record, "COLOR"),
        packed_if(record, "FONTID"),
        bytes_if(record, "TEXT", "TEXT"),
        bytes_if(record, "NAME", "NAME"),
        packed_if(record, "READONLYSTATE"),
        flagbytes_if(record, "ISMIRRORED"),
        packed_if(record, "ORIENTATION"),
        flagbytes_if(record, "ISHIDDEN"),
        bytes_if(record, "UNIQUEID", "UNIQUEID"),
        flagbytes_if(record, "OVERRIDENOTAUTOPOSITION")>>), 1)

handle_bus_entry(record) ==
    Wrote(Join(<<
        RecordTok(<<"3", "7">>),
        int_get(record, "COLOR", 8388608),
        int_req(record, "CORNER.X"),
        int_req(record, "CORNER.Y"),
        int_req(record, "LINEWIDTH"),
        int_req(record, "LOCATION.X"),
        int_req(record, "LOCATION.Y"),
        int_get(record, "OWNERPARTID", -1)>>), 1)

handle_template(record) ==
    Wrote(fstring_encode(Join(<<
        RecordTok(<<"3", "9">>),
        flag_truthy_get(record, "ISNOTACCESIBLE", BoolV(TRUE)),
        int_get(record, "OWNERPARTID", -1),
        repr_req(record, "FILENAME", "utf-8")>>), "ascii"), 1)

\* the override tokens are written under the keys UTF8%TEXT and UTF8%NAME
handle_parameter(record) ==
    Wrote(Join(<<
        RecordTok(<<"4", "1">>),
        packed_if(record, "INDEXINSHEET"),
        packed_if(record, "OWNERINDEX"),
        packed_if(record, "OWNERPARTID"),
        packed_if(record, "LOCATION.X"),
        packed_if(record, "LOCATION.Y"),
        packed_if(record, "ORIENTATION"),
        packed_if(record, "COLOR"),
        packed_if(record, "FONTID"),
        flagbytes_if(record, "ISHIDDEN"),
        bytes_if(record, "TEXT", "TEXT"),
        bytes_if(record, "NAME", "NAME"),
        bytes_if(record, "%UTF8%TEXT", "UTF8%TEXT"),
        bytes_if(record, "%UTF8%NAME", "UTF8%NAME"),
        packed_if(record, "READONLYSTATE"),
        bytes_if(record, "UNIQUEID", "UNIQUEID"),
        flagbytes_if(record, "ISMIRRORED"),
        flagbytes_if(record, "NOTAUTOPOSITION"),
        flagbytes_if(record, "SHOWNAME")>>), 1)

handle_warning_sign(record) ==
    Wrote(Join(<<
        RecordTok(<<"4", "3">>),
        append(record, "OWNERPARTID"),
        append(record, "LOCATION.X"),
        append(record, "LOCATION.Y"),
        append(record, "COLOR"),
        append_if_present(record, "NAME", "", "encode_utf8", ""),
        append(record, "ORIENTATION")>>), 1)

handle_implementation_list(record) ==
    Wrote(fstring_encode(Join(<<
        RecordTok(<<"4", "4">>),
        raw_get(record, "OWNERINDEX", IntV(0))>>), "utf-8"), 2)

handle_implementation(record) ==
    Wrote(fstring_encode(Join(<<
        RecordTok(<<"4", "5">>),
        raw_get(record, "OWNERINDEX", IntV(0)),
        int_get(record, "INDEXINSHEET", -1),
        raw_get(record, "UNIQUEID", StrV(<<>>)),
        raw_get(record, "DESCRIPTION", StrV(<<>>)),
        raw_get(record, "USECOMPONENTLIBRARY", StrV(<<"F">>)),
        raw_get(record, "MODELNAME", StrV(<<>>)),
        raw_get(record, "MODELTYPE", StrV(<<>>)),
        int_get(record, "DATAFILECOUNT", 0),
        raw_get(record, "MODELDATAFILEENTITY0", StrV(<<>>)),
        raw_get(record, "MODELDATAFILEKIND0", StrV(<<>>)),
        raw_get(record, "DATALINKSLOCKED", StrV(<<"F">>)),
        raw_get(record, "DATABASEDATALINKSLOCKED", StrV(<<"F">>)),
        raw_get(record, "INTEGRATEDMODEL", StrV(<<"F">>)),
        raw_get(record, "ISCURRENT", StrV(<<"F">>))>>), "utf-8"), 2)

handle_46(record) ==
    Wrote(fstring_encode(Join(<<
        RecordTok(<<"4", "6">>),
        raw_get(record, "OWNERINDEX", IntV(0))>>), "utf-8"), 2)

handle_47(record) ==
    Wrote(fstring_encode(Join(<<
        RecordTok(<<"4", "7">>),
        raw_get(record, "OWNERINDEX", IntV(0)),
        raw_get(record, "INDEXINSHEET", IntV(0)),
        raw_get(record, "DESINTF", StrV(<<>>)),
        raw_get(record, "DESIMPCOUNT", IntV(1)),
        raw_get(record, "DESIMP0", StrV(<<>>))>>), "utf-8"), 2)

handle_48(record) ==
    Wrote(fstring_encode(Join(<<
        RecordTok(<<"4", "8">>),
        raw_get(record, "OWNERINDEX", IntV(0))>>), "utf-8"), 2)

handle_hyperlink(record) ==
    Wrote(fstring_encode(Join(<<
        RecordTok(<<"2", "2", "6">>),
        raw_get(record, "INDEXINSHEET", IntV(-1)),
        raw_get(record, "OWNERPARTID", IntV(-1)),
        raw_get(record, "LOCATION.X", IntV(0)),
        raw_get(record, "LOCATION.Y", IntV(0)),
        repr_get(record, "FILENAME", <<>>, "utf-8")>>), "utf-8"), 2)

handle_text_frame(record) ==
    Wrote(fstring_encode(Join(<<
        RecordTok(<<"2", "8">>),
        int_get(record, "OWNERPARTID", -1),
        int_get(record, "LOCATION.X", 0),
        int_get(record, "LOCATION.Y", 0),
        int_get(record, "CORNER.X", 0),
        int_get(record, "CORNER.Y", 0),
        int_get(record, "AREACOLOR", 16777215),
        int_get(record, "FONTID", 1),
        int_get(record, "ALIGNMENT", 1),
        raw_get(record, "WORDWRAP", StrV(<<"T">>)),
        int_get(record, "COLOR", 0),
        raw_get(record, "ISSOLID", StrV(<<"F">>)),
        raw_get(record, "CLIPTORECT", StrV(<<"F">>)),
        raw_get(record, "ISNOTACCESIBLE", StrV(<<"F">>)),
        int_get(record, "ORIENTATION", 0),
        int_get(record, "TEXTMARGIN_FRAC", 0),
        int_get(record, "INDEXINSHEET", -1),
        raw_get(record, "TEXT", StrV(<<>>)),
        raw_get(record, "SHOWBORDER", StrV(<<"F">>))>>), "utf-8"), 2)

\* the RECORD token carries the record's own RECORD value, as str() gives it
handle_sheet_name_and_file_name(record) ==
    Wrote(fstring_encode(Join(<<
        raw_req(record, "RECORD"),
        raw_get(record, "OWNERINDEX", IntV(0)),
        int_get(record, "INDEXINSHEET", -1),
        int_get(record, "OWNERPARTID", -1),
        int_get(record, "LOCATION.X", 0),
        int_get(record, "LOCATION.Y", 0),
        int_get(record, "COLOR", 0),
        int_get(record, "FONTID", 1),
        raw_get(record, "TEXT", StrV(<<>>))>>), "utf-8"), 2)

\* the body is a docstring: nothing is written, not even the newline
handle_additional_sheet_symbol(record) == [exc |-> "", out |-> <<>>, writes |-> 0]

handle_additional_generic(record) == [exc |-> "", out |-> <<>>, writes |-> 0]

handle_additional_sheet_name_and_file_name(record) ==
    Wrote(fstring_encode(Join(<<
        RecordTok(<<"2", "1", "7">>),
        raw_get(record, "OWNERINDEXADDITIONALLIST", BoolV(FALSE)),
        raw_get(record, "ISHIDDEN", StrV(<<"F">>)),
        repr_get(record, "TEXT", <<>>, "utf-8")>>), "utf-8"), 2)

handle_additional_geometry(record) ==
    Wrote(fstring_encode(Join(<<
        RecordTok(<<"2", "1", "8">>),
        raw_get(record, "COLOR", IntV(15187117)),
        raw_get(record, "INDEXINSHEET", IntV(-1)),
        raw_get(record, "LINEWIDTH", IntV(1)),
        raw_get(record, "LOCATIONCOUNT", IntV(2)),
        raw_get(record, "OWNERPARTID", IntV(-1)),
        raw_get(record, "X1", IntV(0)),
        raw_get(record, "X2", IntV(0)),
        raw_get(record, "Y1", IntV(0)),
        raw_get(record, "Y2", IntV(0))>>), "utf-8"), 2)

\* x = int(record.get(f'X{i}', 0)); y = int(record.get(f'Y{i}', 0))
coordinate_pair(record, i) ==
    Join(<<int_get(record, IndexedKey("X", i), 0),
           int_get(record, IndexedKey("Y", i), 0)>>)

\* lines 1155-1165 and 1178-1188: the leading fields are written, then one write
\* for each i in range(location_count), then the newline; an exception in the
\* loop leaves what the earlier writes put in the stream
write_pairs(record, head, location_count) ==
    LET Written(pairs) ==
            LET bad == {k \in 1..Len(pairs) : pairs[k].exc # ""}
                stop == IF bad = {} THEN Len(pairs)
                        ELSE (CHOOSE k \in bad : \A j \in bad : k <= j) - 1
                out == head.toks \o Concat([k \in 1..stop |-> pairs[k].toks])
            IN  IF head.exc # "" THEN [exc |-> head.exc, out |-> <<>>, writes |-> 0]
                ELSE IF bad # {}
                THEN [exc |-> pairs[stop + 1].exc, out |-> out, writes |-> 1 + stop]
                ELSE [exc |-> "", out |-> out \o <<NL>>, writes |-> 2 + stop]
    IN  CHOOSE r \in {Written(pairs) :
            pairs \in {[k \in 1..location_count |-> coordinate_pair(record, k - 1)]}} : TRUE

handle_bus(record) ==
    write_pairs(record,
        fstring_encode(Join(<<
            RecordTok(<<"2", "6">>),
            int_get(record, "INDEXINSHEET", -1),
            int_get(record, "OWNERPARTID", -1),
            int_get(record, "LINEWIDTH", 1),
            int_get(record, "COLOR", 0),
            int_get(record, "LOCATIONCOUNT", 0)>>), "utf-8"),
        int(get(record, "LOCATIONCOUNT", IntV(0))).n)

handle_wire(record) ==
    write_pairs(record,
        fstring_encode(Join(<<
            RecordTok(<<"2", "7">>),
            int_get(record, "INDEXINSHEET", -1),
            int_get(record, "OWNERPARTID", -1),
            int_get(record, "LINEWIDTH", 1),
            int_get(record, "COLOR", 0),
            int_get(record, "LOCATIONCOUNT", 0),
            raw_get(record, "UNIQUEID", StrV(<<>>))>>), "utf-8"),
        int(get(record, "LOCATIONCOUNT", IntV(0))).n)

(***************************************************************************)
(* The registry: type code -> handler                                      *)
(***************************************************************************)
record_handlers ==
    (0 :> "handle_header")
    @@ (1 :> "handle_component")
    @@ (2 :> "handle_pin")
    @@ (3 :> "handle_ieee_symbol")
    @@ (4 :> "handle_label")
    @@ (5 :> "handle_bezier")
    @@ (6 :> "handle_polyline")
    @@ (7 :> "handle_polygon")
    @@ (8 :> "handle_ellipse")
    @@ (9 :> "handle_piechart")
    @@ (10 :> "handle_round_rectangle")
    @@ (11 :> "handle_elliptical_arc")
    @@ (12 :> "handle_arc")
    @@ (13 :> "handle_line")
    @@ (14 :> "handle_rectangle")
    @@ (15 :> "handle_sheet_symbol")
    @@ (16 :> "handle_sheet_entry")
    @@ (17 :> "handle_power_port")
    @@ (18 :> "handle_port")
    @@ (22 :> "handle_no_erc")
    @@ (25 :> "handle_net_label")
    @@ (26 :> "handle_bus")
    @@ (27 :> "handle_wire")
    @@ (28 :> "handle_text_frame")
    @@ (29 :> "handle_junction")
    @@ (30 :> "handle_image")
    @@ (31 :> "handle_sheet")
    @@ (32 :> "handle_sheet_name_and_file_name")
    @@ (33 :> "handle_sheet_name_and_file_name")
    @@ (34 :> "handle_designator")
    @@ (37 :> "handle_bus_entry")
    @@ (39 :> "handle_template")
    @@ (41 :> "handle_parameter")
    @@ (43 :> "handle_warning_sign")
    @@ (44 :> "handle_implementation_list")
    @@ (45 :> "handle_implementation")
    @@ (46 :> "handle_46")
    @@ (47 :> "handle_47")
    @@ (48 :> "handle_48")
    @@ (215 :> "handle_additional_sheet_symbol")
    @@ (216 :> "handle_additional_generic")
    @@ (217 :> "handle_additional_sheet_name_and_file_name")
    @@ (218 :> "handle_additional_geometry")
    @@ (226 :> "handle_hyperlink")

\* handler(stream, record)
call(handler, record) ==
    CASE handler = "handle_header" -> handle_header(record)
      [] handler = "handle_component" -> handle_component(record)
      [] handler = "handle_pin" -> handle_pin(record)
      [] handler = "handle_ieee_symbol" -> handle_ieee_symbol(record)
      [] handler = "handle_label" -> handle_label(record)
      [] handler = "handle_bezier" -> handle_bezier(record)
      [] handler = "handle_polyline" -> handle_polyline(record)
      [] handler = "handle_polygon" -> handle_polygon(record)
      [] handler = "handle_ellipse" -> handle_ellipse(record)
      [] handler = "handle_piechart" -> handle_piechart(record)
      [] handler = "handle_round_rectangle" -> handle_round_rectangle(record)
      [] handler = "handle_elliptical_arc" -> handle_elliptical_arc(record)
      [] handler = "handle_arc" -> handle_arc(record)
      [] handler = "handle_line" -> handle_line(record)
      [] handler = "handle_rectangle" -> handle_rectangle(record)
      [] handler = "handle_sheet_symbol" -> handle_sheet_symbol(record)
      [] handler = "handle_sheet_entry" -> handle_sheet_entry(record)
      [] handler = "handle_power_port" -> handle_power_port(record)
      [] handler = "handle_port" -> handle_port(record)
      [] handler = "handle_no_erc" -> handle_no_erc(record)
      [] handler = "handle_net_label" -> handle_net_label(record)
      [] handler = "handle_bus" -> handle_bus(record)
      [] handler = "handle_wire" -> handle_wire(record)
      [] handler = "handle_text_frame" -> handle_text_frame(record)
      [] handler = "handle_junction" -> handle_junction(record)
      [] handler = "handle_image" -> handle_image(record)
      [] handler = "handle_sheet" -> handle_sheet(record)
      [] handler = "handle_sheet_name_and_file_name" -> handle_sheet_name_and_file_name(record)
      [] handler = "handle_designator" -> handle_designator(record)
      [] handler = "handle_bus_entry" -> handle_bus_entry(record)
      [] handler = "handle_template" -> handle_template(record)
      [] handler = "handle_parameter" -> handle_parameter(record)
      [] handler = "handle_warning_sign" -> handle_warning_sign(record)
      [] handler = "handle_implementation_list" -> handle_implementation_list(record)
      [] handler = "handle_implementation" -> handle_implementation(record)
      [] handler = "handle_46" -> handle_46(record)
      [] handler = "handle_47" -> handle_47(record)
      [] handler = "handle_48" -> handle_48(record)
      [] handler = "handle_additional_sheet_symbol" -> handle_additional_sheet_symbol(record)
      [] handler = "handle_additional_generic" -> handle_additional_generic(record)
      [] handler = "handle_additional_sheet_name_and_file_name" -> handle_additional_sheet_name_and_file_name(record)
      [] handler = "handle_additional_geometry" -> handle_additional_geometry(record)
      [] handler = "handle_hyperlink" -> handle_hyperlink(record)

(***************************************************************************)
(* The documents the model is run on                                       *)
(***************************************************************************)
\* a dict from its items, a set of <<key, value>>
Rec(items) ==
    [k \in {it[1] : it \in items} |-> (CHOOSE it \in items : it[1] = k)[2]]

Text3 == <<"a", "b", "c">>

PinRecord ==
    Rec({<<"RECORD", IntV(2)>>, <<"OWNERINDEX", IntV(1)>>, <<"LOCATION.X", IntV(10)>>,
         <<"LOCATION.Y", IntV(20)>>, <<"ELECTRICAL", IntV(0)>>})

PinNoOwner ==
    Rec({<<"RECORD", IntV(2)>>, <<"LOCATION.X", IntV(10)>>, <<"LOCATION.Y", IntV(20)>>})

PinBadX ==
    Rec({<<"RECORD", StrV(<<"2">>)>>, <<"OWNERINDEX", IntV(1)>>,
         <<"LOCATION.X", StrV(Text3)>>})

LabelRecord ==
    Rec({<<"RECORD", IntV(4)>>, <<"OWNERINDEX", IntV(1)>>, <<"INDEXINSHEET", IntV(3)>>,
         <<"OWNERPARTID", IntV(-1)>>, <<"LOCATION.X", IntV(5)>>,
         <<"LOCATION.Y", IntV(6)>>, <<"TEXT", StrV(<<"R", "1">>)>>})

LabelNoOwner ==
    Rec({<<"RECORD", IntV(4)>>, <<"INDEXINSHEET", IntV(3)>>, <<"OWNERPARTID", IntV(-1)>>,
         <<"LOCATION.X", IntV(5)>>, <<"LOCATION.Y", IntV(6)>>})

BusRecord ==
    Rec({<<"RECORD", IntV(26)>>, <<"LOCATIONCOUNT", IntV(1)>>, <<"X0", IntV(3)>>,
         <<"Y0", IntV(4)>>, <<"X1", IntV(5)>>, <<"Y1", IntV(6)>>})

BusBadPair ==
    Rec({<<"RECORD", IntV(26)>>, <<"LOCATIONCOUNT", IntV(2)>>, <<"X0", IntV(3)>>,
         <<"Y0", IntV(4)>>, <<"X1", StrV(Text3)>>, <<"Y1", IntV(6)>>})

PieRecord == Rec({<<"RECORD", IntV(9)>>, <<"COLOR", IntV(1)>>})

AdditionalRecord == Rec({<<"RECORD", IntV(215)>>, <<"COLOR", IntV(1)>>})

Type999 == Rec({<<"RECORD", IntV(999)>>, <<"OWNERINDEX", IntV(1)>>})

NoType == Rec({<<"OWNERINDEX", IntV(1)>>})

BadType == Rec({<<"RECORD", StrV(Text3)>>, <<"OWNERINDEX", IntV(1)>>})

WireBadPair ==
    Rec({<<"RECORD", IntV(27)>>, <<"LOCATIONCOUNT", IntV(2)>>, <<"X0", IntV(3)>>,
         <<"Y0", StrV(Text3)>>, <<"UNIQUEID", StrV(Text3)>>})

Palette ==
    {PinRecord, PinNoOwner, PinBadX, LabelRecord, LabelNoOwner, BusRecord, BusBadPair,
     WireBadPair, PieRecord, AdditionalRecord, Type999, NoType, BadType}

\* a record of a registered type that carries its type code only
Bare(n) == Rec({<<"RECORD", IntV(n)>>})

\* the types that carry a coordinate list sized by LOCATIONCOUNT
CoordTypes == {5, 6, 7, 26, 27}

MaxCount == 2

CoordNames == {"X", "Y"}

\* a record of a coordinate type: the count it declares and the coordinate keys
\* it carries, each a pair <<name, index>>
CoordRecord(type, count, present) ==
    Rec({<<"RECORD", IntV(type)>>, <<"OWNERINDEX", IntV(1)>>, <<"OWNERPARTID", IntV(1)>>,
         <<"LINEWIDTH", IntV(1)>>, <<"COLOR", IntV(0)>>, <<"LOCATIONCOUNT", IntV(count)>>}
        \cup {<<IndexedKey(c[1], c[2]), IntV(IF c[1] = "X" THEN 10 + c[2] ELSE 20 + c[2])>> :
                 c \in present})

CoordRecords ==
    {CoordRecord(type, count, present) :
        type \in CoordTypes, count \in 0..MaxCount,
        present \in SUBSET (CoordNames \X (0..MaxCount))}

\* counts that declare no list: a negative number, a text that is no number
BadCounts == {IntV(-1), StrV(Text3)}

\* records of the coordinate types with such a count, and polygons with such a
\* count of extra points
BadCountRecords ==
    {[CoordRecord(type, 0, {}) EXCEPT !["LOCATIONCOUNT"] = c] :
        type \in CoordTypes, c \in BadCounts}
    \cup {CoordRecord(7, 0, {}) @@ ("EXTRALOCATIONCOUNT" :> c) : c \in BadCounts}

\* the records of a type that carry some of the items, one value for a key
RecordsWith(type, items) ==
    {Rec({<<"RECORD", IntV(type)>>} \cup chosen) :
        chosen \in {c \in SUBSET items : \A a, b \in c : a[1] = b[1] => a = b}}

TextR == <<"R">>

TextUtf8 == <<"a", NonAscii>>

\* parameter records: the two dual fields, their overrides, a number, a flag
ParameterItems ==
    {<<"TEXT", StrV(Text3)>>, <<"NAME", StrV(TextR)>>,
     <<"%UTF8%TEXT", StrV(TextUtf8)>>, <<"%UTF8%NAME", StrV(TextR)>>,
     <<"OWNERINDEX", IntV(1)>>, <<"ISHIDDEN", StrV(<<"T">>)>>}

\* component records: the dual field, its override, other text, a flag
ComponentItems ==
    {<<"COMPONENTDESCRIPTION", StrV(Text3)>>,
     <<"%UTF8%COMPONENTDESCRIPTION", StrV(TextUtf8)>>,
     <<"LIBREFERENCE", StrV(TextR)>>, <<"UNIQUEID", StrV(Text3)>>,
     <<"ISMIRRORED", BoolV(TRUE)>>}

\* pin records: the text fields, the swap id and its override
PinItems ==
    {<<"OWNERINDEX", IntV(1)>>, <<"NAME", StrV(<<"A">>)>>, <<"NAME", StrV(TextUtf8)>>,
     <<"DESIGNATOR", StrV(TextR)>>, <<"SWAPIDPIN", StrV(Text3)>>,
     <<"%UTF8%SWAPIDPART", StrV(TextUtf8)>>, <<"DESCRIPTION", StrV(Text3)>>}

\* records of the types whose handlers write a field only when its key is there
ArcItems ==
    {<<"OWNERINDEX", IntV(1)>>, <<"RADIUS", IntV(5)>>, <<"STARTANGLE", IntV(0)>>,
     <<"COLOR", IntV(0)>>}

LineItems ==
    {<<"LOCATION.X", IntV(10)>>, <<"CORNER.X", IntV(20)>>, <<"COLOR", IntV(0)>>}

PowerPortItems ==
    {<<"STYLE", IntV(1)>>, <<"SHOWNETNAME", BoolV(TRUE)>>, <<"TEXT", StrV(Text3)>>}

PortItems == {<<"STYLE", IntV(1)>>, <<"NAME", StrV(TextR)>>, <<"HEIGHT", IntV(5)>>}

NetLabelItems ==
    {<<"TEXT", StrV(Text3)>>, <<"ORIENTATION", IntV(1)>>, <<"COLOR", IntV(0)>>}

JunctionItems ==
    {<<"LOCKED", BoolV(TRUE)>>, <<"LOCATION.X", IntV(10)>>, <<"COLOR", IntV(0)>>}

DesignatorItems ==
    {<<"OWNERINDEX", IntV(1)>>, <<"TEXT", StrV(TextR)>>, <<"ISHIDDEN", StrV(<<"T">>)>>,
     <<"COLOR", IntV(0)>>}

\* records with flags: JSON true and false, the texts T and F, another text
TextFrameItems ==
    {<<"WORDWRAP", BoolV(TRUE)>>, <<"WORDWRAP", StrV(<<"T">>)>>,
     <<"ISSOLID", BoolV(FALSE)>>, <<"ISSOLID", StrV(<<"F">>)>>,
     <<"SHOWBORDER", StrV(Text3)>>, <<"TEXT", StrV(TextR)>>}

SheetItems ==
    {<<"BORDERON", BoolV(TRUE)>>, <<"BORDERON", StrV(<<"T">>)>>,
     <<"USECUSTOMSHEET", BoolV(FALSE)>>, <<"SHEETSTYLE", IntV(1)>>}

FlagRecords == RecordsWith(28, TextFrameItems) \cup RecordsWith(31, SheetItems)

HyperlinkItems == {<<"FILENAME", StrV(Text3)>>, <<"LOCATION.X", IntV(10)>>}

FieldRecords ==
    FlagRecords \cup RecordsWith(226, HyperlinkItems) \cup RecordsWith(41, ParameterItems) \cup RecordsWith(1, ComponentItems)
    \cup RecordsWith(2, PinItems) \cup RecordsWith(12, ArcItems)
    \cup RecordsWith(13, LineItems) \cup RecordsWith(17, PowerPortItems)
    \cup RecordsWith(18, PortItems) \cup RecordsWith(25, NetLabelItems)
    \cup RecordsWith(29, JunctionItems) \cup RecordsWith(34, DesignatorItems)

\* the fields the three handlers give to struct.pack('<I', int(...))
PackedKeys(type) ==
    CASE type = 14 ->
           {"LOCATION.X", "LOCATION.Y", "CORNER.X", "CORNER.Y", "LINEWIDTH", "OWNERINDEX"}
      [] type = 34 ->
           {"OWNERINDEX", "INDEXINSHEET", "OWNERPARTID", "LOCATION.X", "LOCATION.Y",
            "COLOR", "FONTID", "READONLYSTATE", "ORIENTATION"}
      [] type = 41 ->
           {"INDEXINSHEET", "OWNERINDEX", "OWNERPARTID", "LOCATION.X", "LOCATION.Y",
            "ORIENTATION", "COLOR", "FONTID", "READONLYSTATE"}
      [] OTHER -> {}

\* values of a packed field: the ends of every byte of 0..2^32-1, its two
\* neighbours -1 and 2^32, a number spelled as text, a JSON true
PackedValues ==
    {IntV(0), IntV(1), IntV(255), IntV(256), IntV(65535), IntV(65536),
     IntV(16777215), IntV(16777216), IntV(2147483647),
     BigV(1, 0), BigV(1, 1), BigV(1, 2147483647), BigV(2, 0),
     IntV(-1), StrV(<<"1">>), StrV(Text3), BoolV(TRUE)}

PackedRecords ==
    {Rec({<<"RECORD", IntV(type)>>, <<key, v>>}) :
        type \in {14, 34, 41}, key \in PackedKeys(14) \cup PackedKeys(34), v \in PackedValues}

\* the records the single-record runs are made on
Records ==
    Palette \cup {Bare(n) : n \in DOMAIN record_handlers} \cup CoordRecords
    \cup BadCountRecords \cup FieldRecords \cup PackedRecords

MaxDocLen == 2

RECURSIVE SeqsUpTo(_, _)
SeqsUpTo(S, n) ==
    IF n = 0 THEN {<<>>}
    ELSE LET shorter == SeqsUpTo(S, n - 1)
         IN  shorter \cup {Append(d, r) : d \in shorter, r \in S}

Documents == SeqsUpTo(Palette, MaxDocLen)

(***************************************************************************)
(* create_fileheader_stream(ole, data)                                     *)
(***************************************************************************)
\* json_to_schdoc after json.load, line 1020: the JSON object has a list under
\* 'records' or has no such key, and the container at schdoc_path has a
\* FileHeader stream or has none
InitWith(docs, fails) ==
    /\ failAt \in fails
    /\ hasRecords \in BOOLEAN
    /\ data \in IF hasRecords THEN docs ELSE {<<>>}
    /\ hasFileHeader \in BOOLEAN
    /\ pos = 1
    /\ stream = <<>>
    /\ pc = "enter"
    /\ exc = ""
    /\ conditions = <<>>
    /\ writes = 0
    /\ streamState = "unopened"
    /\ oleState = "unopened"

\* a run on a stream every write of which succeeds
InitOn(docs) == InitWith(docs, {0})

Init == InitOn(Documents)

Log(kind) == Append(conditions, [kind |-> kind, at |-> pos])

\* lines 1023-1031: with olefile.OleFileIO(...) as ole, then the call of
\* create_fileheader_stream, or the warning when there is no 'records' key
OpenContainer ==
    /\ pc = "enter"
    /\ oleState' = "open"
    /\ IF hasRecords
       THEN pc' = "start" /\ conditions' = conditions
       ELSE pc' = "done" /\ conditions' = Log("NoRecords")
    /\ UNCHANGED <<failAt, data, pos, stream, exc, writes, hasFileHeader, hasRecords, streamState>>

\* lines 1046-1049: the assert stands where the stream would be created
OpenStream ==
    /\ pc = "start"
    /\ IF hasFileHeader
       THEN pc' = "loop" /\ exc' = exc /\ streamState' = "open"
       ELSE pc' = "raised" /\ exc' = "AssertionError" /\ streamState' = streamState
    /\ UNCHANGED <<failAt, data, pos, stream, conditions, writes, hasFileHeader, hasRecords, oleState>>

\* a driver that a record without a type code stops
SkipMissingTypeAborts ==
    /\ pc = "loop"
    /\ pos <= Len(data)
    /\ "RECORD" \notin DOMAIN data[pos]
    /\ pc' = "raised"
    /\ exc' = "KeyError"
    /\ UNCHANGED <<failAt, data, pos, stream, conditions, writes, hasFileHeader,
                   hasRecords, streamState, oleState>>

\* lines 1052-1055: record.get('RECORD') is None
SkipMissingType ==
    /\ pc = "loop"
    /\ pos <= Len(data)
    /\ "RECORD" \notin DOMAIN data[pos]
    /\ conditions' = Log("MissingType")
    /\ pos' = pos + 1
    /\ UNCHANGED <<failAt, data, stream, pc, exc, writes, hasFileHeader, hasRecords, streamState, oleState>>

\* lines 1057-1061: int(record_type_str) raises ValueError
SkipInvalidType ==
    /\ pc = "loop"
    /\ pos <= Len(data)
    /\ "RECORD" \in DOMAIN data[pos]
    /\ int(data[pos]["RECORD"]).exc # ""
    /\ conditions' = Log("InvalidType")
    /\ pos' = pos + 1
    /\ UNCHANGED <<failAt, data, stream, pc, exc, writes, hasFileHeader, hasRecords, streamState, oleState>>

\* the type code of a record that has one
record_type(record) == int(record["RECORD"]).n

HasType(record) == "RECORD" \in DOMAIN record /\ int(record["RECORD"]).exc = ""

\* a driver that writes a separator for a record it has no handler for
UnhandledWritesSeparator ==
    /\ pc = "loop"
    /\ pos <= Len(data)
    /\ HasType(data[pos])
    /\ record_type(data[pos]) \notin DOMAIN record_handlers
    /\ conditions' = Log("UnsupportedType")
    /\ stream' = Append(stream, NL)
    /\ pos' = pos + 1
    /\ UNCHANGED <<failAt, data, pc, exc, writes, hasFileHeader, hasRecords, streamState, oleState>>

\* lines 1063, 1067-1068: no handler for the type code
Unhandled ==
    /\ pc = "loop"
    /\ pos <= Len(data)
    /\ HasType(data[pos])
    /\ record_type(data[pos]) \notin DOMAIN record_handlers
    /\ conditions' = Log("UnsupportedType")
    /\ pos' = pos + 1
    /\ UNCHANGED <<failAt, data, stream, pc, exc, writes, hasFileHeader, hasRecords, streamState, oleState>>

\* what the registered handler does with a record
Handled(record) == call(record_handlers[record_type(record)], record)

\* the length of what a handler has written after each of its stream.write
\* calls, from what it does on a stream that takes every write: handle_bus and
\* handle_wire write the header, then each pair of coordinates, then the
\* newline; the others write their bytes at once, some the newline after them
WriteEnds(record, r) ==
    IF record_type(record) \in {26, 27}
    THEN LET pairs == IF r.exc = "" THEN r.writes - 2 ELSE r.writes - 1
             header == Len(r.out) - (2 * pairs) - (IF r.exc = "" THEN 1 ELSE 0)
         IN  [k \in 1..r.writes |->
                 IF k <= pairs + 1 THEN header + (2 * (k - 1)) ELSE Len(r.out)]
    ELSE [k \in 1..r.writes |-> IF k = r.writes THEN Len(r.out) ELSE Len(r.out) - 1]

\* handler(stream, record) on a stream whose write fails at the f-th call the
\* handler makes (at none, if the handler makes fewer calls or f < 1): the
\* bytes of the calls before it are in the stream, and the error leaves the
\* handler, but for handle_rectangle, which catches and logs it (lines
\* 1139-1142)
OnStream(record, r, f) ==
    IF f < 1 \/ f > r.writes
    THEN [exc |-> r.exc, out |-> r.out, writes |-> r.writes, caught |-> FALSE]
    ELSE [exc |-> IF record_type(record) = 14 THEN "" ELSE "OSError",
          out |-> IF f = 1 THEN <<>> ELSE SubSeq(r.out, 1, WriteEnds(record, r)[f - 1]),
          writes |-> f,
          caught |-> record_type(record) = 14]

\* a driver whose output for a record depends on where the record stands: it
\* writes the position in front of the record's bytes
DispatchNumbered ==
    /\ pc = "loop"
    /\ pos <= Len(data)
    /\ HasType(data[pos])
    /\ record_type(data[pos]) \in DOMAIN record_handlers
    /\ \E done \in {OnStream(data[pos], r, failAt - writes) : r \in {Handled(data[pos])}} :
           /\ stream' = stream \o <<Tok("|", "INDEX", str_int(pos))>> \o done.out
           /\ writes' = writes + done.writes
           /\ conditions' = IF done.caught THEN Log("WriteError") ELSE conditions
           /\ IF done.exc = ""
              THEN pos' = pos + 1 /\ pc' = pc /\ exc' = exc
              ELSE pos' = pos /\ pc' = "raised" /\ exc' = done.exc
    /\ UNCHANGED <<failAt, data, hasFileHeader, hasRecords, streamState, oleState>>

\* a driver whose handlers store the defaults they use in the record
DispatchStoresDefaults ==
    /\ pc = "loop"
    /\ pos <= Len(data)
    /\ HasType(data[pos])
    /\ record_type(data[pos]) \in DOMAIN record_handlers
    /\ \E done \in {OnStream(data[pos], r, failAt - writes) : r \in {Handled(data[pos])}} :
           /\ stream' = stream \o done.out
           /\ writes' = writes + done.writes
           /\ conditions' = IF done.caught THEN Log("WriteError") ELSE conditions
           /\ IF done.exc = ""
              THEN pos' = pos + 1 /\ pc' = pc /\ exc' = exc
              ELSE pos' = pos /\ pc' = "raised" /\ exc' = done.exc
    /\ data' = [data EXCEPT ![pos] = [key \in DOMAIN @ \cup {"OWNERPARTID"} |->
                                        get(@, key, IntV(-1))]]
    /\ UNCHANGED <<failAt, hasFileHeader, hasRecords, streamState, oleState>>

\* a driver that puts a record's bytes in front of the stream
DispatchPrepends ==
    /\ pc = "loop"
    /\ pos <= Len(data)
    /\ HasType(data[pos])
    /\ record_type(data[pos]) \in DOMAIN record_handlers
    /\ \E done \in {Handled(data[pos])} :
           /\ stream' = done.out \o stream
           /\ writes' = writes + done.writes
           /\ IF done.exc = ""
              THEN pos' = pos + 1 /\ pc' = pc /\ exc' = exc
              ELSE pos' = pos /\ pc' = "raised" /\ exc' = done.exc
    /\ UNCHANGED <<failAt, data, conditions, hasFileHeader, hasRecords, streamState, oleState>>

\* lines 1063-1066: handler(stream, record); an exception of the handler is
\* caught nowhere and ends the loop.  failAt - writes is the call of this
\* handler at which the write fails.
Dispatch ==
    /\ pc = "loop"
    /\ pos <= Len(data)
    /\ HasType(data[pos])
    /\ record_type(data[pos]) \in DOMAIN record_handlers
    /\ \E done \in {OnStream(data[pos], r, failAt - writes) : r \in {Handled(data[pos])}} :
           /\ stream' = stream \o done.out
           /\ writes' = writes + done.writes
           /\ conditions' = IF done.caught THEN Log("WriteError") ELSE conditions
           /\ IF done.exc = ""
              THEN pos' = pos + 1 /\ pc' = pc /\ exc' = exc
              ELSE pos' = pos /\ pc' = "raised" /\ exc' = done.exc
    /\ UNCHANGED <<failAt, data, hasFileHeader, hasRecords, streamState, oleState>>

\* line 1077: the loop is over
Finish ==
    /\ pc = "loop"
    /\ pos > Len(data)
    /\ pc' = "done"
    /\ UNCHANGED <<failAt, data, pos, stream, exc, conditions, writes, hasFileHeader, hasRecords, streamState, oleState>>

\* a stream that is closed only at the end of the loop, by no with statement
ExitStreamAtEnd ==
    /\ pc = "done"
    /\ streamState = "open"
    /\ streamState' = "closed"
    /\ UNCHANGED <<failAt, data, pos, stream, pc, exc, conditions, writes, hasFileHeader,
                   hasRecords, oleState>>

\* line 1049: the with statement of the stream is left, at the end of its block
\* or by the exception that goes through it, and closes the stream
ExitStream ==
    /\ pc \in {"done", "raised"}
    /\ streamState = "open"
    /\ streamState' = "closed"
    /\ UNCHANGED <<failAt, data, pos, stream, pc, exc, conditions, writes, hasFileHeader,
                   hasRecords, oleState>>

\* line 1023: the with statement of the container is left, after that of the
\* stream, and closes the container
ExitContainer ==
    /\ pc \in {"done", "raised"}
    /\ streamState # "open"
    /\ oleState = "open"
    /\ oleState' = "closed"
    /\ UNCHANGED <<failAt, data, pos, stream, pc, exc, conditions, writes, hasFileHeader,
                   hasRecords, streamState>>

\* line 1038: ole.close() once more, on the way that no exception left
CloseAgain ==
    /\ pc = "done"
    /\ oleState = "closed"
    /\ pc' = "returned"
    /\ UNCHANGED <<failAt, data, pos, stream, exc, conditions, writes, hasFileHeader,
                   hasRecords, streamState, oleState>>

Next ==
    \/ OpenContainer
    \/ OpenStream
    \/ SkipMissingType
    \/ SkipInvalidType
    \/ Unhandled
    \/ Dispatch
    \/ Finish
    \/ ExitStream
    \/ ExitContainer
    \/ CloseAgain

Spec == Init /\ [][Next]_vars

\* what json_to_schdoc and create_fileheader_stream return: neither has a
\* return statement, so each returns None
None == [kind |-> "None"]

returned == IF pc = "returned" THEN None ELSE [kind |-> "running"]

\* a rectangle, and the records written around it on a stream that fails
RectangleRecord == Rec({<<"RECORD", IntV(14)>>, <<"LOCATION.X", IntV(1)>>})

FailPalette == {RectangleRecord, LabelRecord, BusRecord, PinRecord, Type999, NoType, BadType}

MaxFailAt == 3

\* the runs on a stream one write of which fails, the first to the MaxFailAt-th
InitWriteFail == InitWith(SeqsUpTo(FailPalette, MaxDocLen), 1..MaxFailAt)

SpecWriteFail == InitWriteFail /\ [][Next]_vars

\* the runs on one record each, over the larger set of records
InitRecord == InitOn({<<record>> : record \in Records})

SpecRecord == InitRecord /\ [][Next]_vars

\* the program is one thread that takes its next step as long as it has one
SpecFair == Init /\ [][Next]_vars /\ WF_vars(Next)

(***************************************************************************)
(* Properties of the driver                                                *)
(***************************************************************************)
\* the record has a type code that record_handlers knows
Registered(record) == HasType(record) /\ record_type(record) \in DOMAIN record_handlers

\* the record has a type code that record_handlers does not know
Unsupported(record) == HasType(record) /\ record_type(record) \notin DOMAIN record_handlers

\* the complete encoding of a record, nothing for a record that is not encoded
EncodingOf(record) ==
    IF Registered(record) /\ Handled(record).exc = "" THEN Handled(record).out ELSE <<>>

\* the encodings of the records of a document, one after the other in its order
StreamOf(doc) == Concat([k \in 1..Len(doc) |-> EncodingOf(doc[k])])

\* the loop is at a record
AtRecord == pc = "loop" /\ pos <= Len(data)

\* C1: a per-record error never aborts the encode: whatever the record the loop
\* is at (a required field absent, a value that does not convert), the step
\* taken on it leaves the loop running and moves on to the next record.
C1_RecordErrorNeverAborts == [][AtRecord => (pc' = "loop" /\ pos' = pos + 1)]_vars

\* C2: when the driver finishes, the stream is the concatenation of the
\* encodings of the encoded records in the order of the input, and so it is
\* after every record on the way: nothing reordered, nothing twice.
C2_StreamInInputOrder ==
    /\ pc = "done" => stream = StreamOf(data)
    /\ pc = "loop" => stream = StreamOf(SubSeq(data, 1, pos - 1))

\* two different records, both encoded, in a finished run
C2_Witness ==
    /\ pc = "done"
    /\ Len(data) = 2
    /\ EncodingOf(data[1]) # <<>>
    /\ EncodingOf(data[2]) # <<>>
    /\ EncodingOf(data[1]) # EncodingOf(data[2])
    /\ stream = EncodingOf(data[1]) \o EncodingOf(data[2])

\* C3: when the encoding of a record fails, none of its bytes are in the
\* stream: in every reachable state, the failure of a bus or wire record amid
\* its coordinate pairs included, the stream holds the complete encodings of the
\* records before the current one and nothing else.
C3_OnlyCompleteEncodings == stream = StreamOf(SubSeq(data, 1, pos - 1))

\* a pin record without OWNERINDEX
PinWithoutOwner(record) ==
    Registered(record) /\ record_type(record) = 2 /\ "OWNERINDEX" \notin DOMAIN record

\* C4: a pin record (type 2) that lacks OWNERINDEX is dropped: the step taken on
\* it writes no bytes and records a MissingRequiredField condition, and the loop
\* goes on to the records after it.
C4_PinWithoutOwnerDropped ==
    [][(AtRecord /\ PinWithoutOwner(data[pos]))
        => /\ stream' = stream
           /\ conditions' = Log("MissingRequiredField")
           /\ pc' = "loop"
           /\ pos' = pos + 1]_vars

\* the document without its records of an unknown type
Supported(doc) == SelectSeq(doc, LAMBDA record : ~Unsupported(record))

\* the conditions of one kind
OfKind(kind) == SelectSeq(conditions, LAMBDA c : c.kind = kind)

\* C5: a record whose type code is not in the registry gets zero bytes written
\* and exactly one UnsupportedType condition, and the stream of the finished run
\* is the one of the document without such records.
C5_UnsupportedTypeSkipped ==
    /\ [][(AtRecord /\ Unsupported(data[pos]))
            => /\ stream' = stream
               /\ writes' = writes
               /\ conditions' = Log("UnsupportedType")
               /\ pc' = "loop"
               /\ pos' = pos + 1]_vars
    /\ [](pc = "done" =>
            /\ stream = StreamOf(Supported(data))
            /\ Len(OfKind("UnsupportedType"))
                 = Cardinality({k \in 1..Len(data) : Unsupported(data[k])}))

\* a finished run on a record of type 999 and a pin after it
C5_Witness ==
    /\ pc = "done"
    /\ data = <<Type999, PinRecord>>
    /\ stream = handle_pin(PinRecord).out
    /\ conditions = <<[kind |-> "UnsupportedType", at |-> 1]>>


(***************************************************************************)
(* Properties of the handlers, read off the step the driver takes on a     *)
(* record                                                                  *)
(***************************************************************************)
\* the loop is at a record that its handler encodes without an exception
AtEncoded == AtRecord /\ Registered(data[pos]) /\ Handled(data[pos]).exc = ""

\* what a step appended to the stream
Appended == SubSeq(stream', Len(stream) + 1, Len(stream'))

PinTokens ==
    <<Tok("|", "RECORD", <<"2">>),
      Tok("|", "OWNERINDEX", <<"1">>),
      Tok("|", "OWNERPARTID", <<"-", "1">>),
      Tok("|", "PINLENGTH", <<"0">>),
      Tok("|", "LOCATION.X", <<"1", "0">>),
      Tok("|", "LOCATION.Y", <<"2", "0">>),
      Tok("|", "ELECTRICAL", <<"0">>),
      Tok("|", "SYMBOL_OUTER", <<"0">>),
      Tok("|", "SYMBOL_OUTEREDGE", <<"0">>),
      Tok("|", "SYMBOL_INNEREDGE", <<"0">>)>>

\* C6: the pin record {RECORD=2, OWNERINDEX=1, LOCATION.X=10, LOCATION.Y=20,
\* ELECTRICAL=0} is encoded as exactly |RECORD=2|OWNERINDEX=1|OWNERPARTID=-1
\* |PINLENGTH=0|LOCATION.X=10|LOCATION.Y=20|ELECTRICAL=0|SYMBOL_OUTER=0
\* |SYMBOL_OUTEREDGE=0|SYMBOL_INNEREDGE=0 and the separator, wherever the record
\* stands in the document.
C6_PinEncoding ==
    [][(AtRecord /\ data[pos] = PinRecord)
        => /\ stream' = stream \o PinTokens \o <<NL>>
           /\ pc' = "loop"
           /\ pos' = pos + 1]_vars

\* the pin record has been encoded, alone and after another encoded record
C6_Witness ==
    /\ pc = "done"
    /\ data = <<LabelRecord, PinRecord>>
    /\ stream = handle_label(LabelRecord).out \o PinTokens \o <<NL>>

\* C7: for every type code of record_handlers, a record of that type that is
\* encoded without an error has |RECORD=<type code> as the first token of its
\* bytes.
C7_StartsWithRecordToken ==
    [][AtEncoded
        => /\ Len(stream') > Len(stream)
           /\ stream'[Len(stream) + 1]
                = Tok("|", "RECORD", str_int(record_type(data[pos])))]_vars

\* the registered types without a confirmed field layout
NoLayoutTypes == {9, 215, 216}

\* C8: a record of type 9, 215 or 216 is encoded as the token |RECORD=<n> and
\* the separator, nothing else and never zero bytes, whatever fields it carries.
C8_NoLayoutEmitsRecordToken ==
    [][(AtRecord /\ Registered(data[pos]) /\ record_type(data[pos]) \in NoLayoutTypes)
        => stream' = stream \o <<Tok("|", "RECORD", str_int(record_type(data[pos]))), NL>>]_vars

\* the loop is at a record of a coordinate type that declares a count and is
\* encoded without an exception
AtCounted ==
    /\ AtEncoded
    /\ record_type(data[pos]) \in CoordTypes
    /\ "LOCATIONCOUNT" \in DOMAIN data[pos]
    /\ int(data[pos]["LOCATIONCOUNT"]).exc = ""

\* the count the record declares
Declared == int(data[pos]["LOCATIONCOUNT"]).n

\* the keys X0, X1, ... (or Y0, Y1, ...) a token can carry
IndexedKeys(name) == {IndexedKey(name, i) : i \in 0..(MaxCount + 1)}

\* the keys of the coordinate tokens of some bytes, in their order
CoordKeysOf(toks) ==
    LET coords == SelectSeq(toks, LAMBDA tok : tok.key \in IndexedKeys("X") \cup IndexedKeys("Y"))
    IN  [k \in 1..Len(coords) |-> coords[k].key]

\* the number of tokens whose key is in keys
CountOf(toks, keys) == Len(SelectSeq(toks, LAMBDA tok : tok.key \in keys))

\* C9: a record of type 5, 6, 7, 26 or 27 with LOCATIONCOUNT=N that is encoded
\* without an error has exactly N X-tokens and N Y-tokens, also when keys X_i or
\* Y_i are absent from the record; with LOCATIONCOUNT=0 it has none.
C9_ExactlyDeclaredPairs ==
    [][AtCounted
        => /\ CountOf(Appended, IndexedKeys("X")) = Declared
           /\ CountOf(Appended, IndexedKeys("Y")) = Declared]_vars

\* C10: the coordinate tokens of a record with LOCATIONCOUNT=N are X1, Y1, ...,
\* XN, YN in this order: indices 1..N ascending without a gap, no X0 or Y0 and
\* no index above N, for bus and wire as for bezier, polyline and polygon.
C10_IndicesOneToN ==
    [][AtCounted
        => CoordKeysOf(Appended)
             = [k \in 1..(2 * Declared) |->
                  IndexedKey(IF k % 2 = 1 THEN "X" ELSE "Y", (k + 1) \div 2)]]_vars

\* the count field of the record is negative or is no number
BadCount(record, countkey) ==
    /\ countkey \in DOMAIN record
    /\ int(record[countkey]).exc # "" \/ int(record[countkey]).n < 0

\* the loop is at a record of a coordinate type with such a count field
AtBadCount ==
    /\ AtRecord
    /\ Registered(data[pos])
    /\ record_type(data[pos]) \in CoordTypes
    /\ \/ BadCount(data[pos], "LOCATIONCOUNT")
       \/ record_type(data[pos]) = 7 /\ BadCount(data[pos], "EXTRALOCATIONCOUNT")

\* C11: a record of a coordinate type whose count field (LOCATIONCOUNT, or
\* EXTRALOCATIONCOUNT of a polygon) is negative or non-numeric is not emitted,
\* and the error stays with that record: the loop goes on to the next record.
C11_BadCountNotEmitted ==
    [][AtBadCount => (stream' = stream /\ pc' = "loop" /\ pos' = pos + 1)]_vars

(***************************************************************************)
(* Properties of the dual-encoded fields                                   *)
(***************************************************************************)
\* the canonical names of the dual-encoded fields of a record type
DualFields(type) ==
    CASE type = 41 -> {"TEXT", "NAME"}
      [] type = 1 -> {"COMPONENTDESCRIPTION"}
      [] OTHER -> {}

\* the key of the override of a canonical field
OverrideKey(name) == "%UTF8%" \o name

\* the keys under which a handler writes the override of a canonical field
WrittenOverrideKeys(name) == {OverrideKey(name), "UTF8%" \o name}

\* C12: when a record supplies the override of a dual-encoded field (%UTF8%TEXT
\* or %UTF8%NAME of a parameter, %UTF8%COMPONENTDESCRIPTION of a component), its
\* output has exactly two tokens for the field, the canonical token and right
\* after it the override token.  (Stated for the records that carry the
\* canonical field as well, and with the override token taken under either
\* spelling of its key, so that only number and place are at stake.)
C12_OverrideFollowsCanonical ==
    [][AtEncoded
        => \A name \in DualFields(record_type(data[pos])) :
             (OverrideKey(name) \in DOMAIN data[pos] /\ name \in DOMAIN data[pos])
             => /\ CountOf(Appended, {name} \cup WrittenOverrideKeys(name)) = 2
                /\ \E k \in 1..(Len(Appended) - 1) :
                     /\ Appended[k].key = name
                     /\ Appended[k + 1].key \in WrittenOverrideKeys(name)]_vars

\* the canonical names of the fields a handler writes an override for
OverrideNames == {"COMPONENTDESCRIPTION", "SWAPIDPART", "TEXT", "NAME"}

\* every override token of the bytes has its key in the record and its
\* canonical token somewhere before it
OverridesAfterCanonical(record, toks) ==
    \A name \in OverrideNames : \A k \in 1..Len(toks) :
        toks[k].key \in WrittenOverrideKeys(name)
        => /\ OverrideKey(name) \in DOMAIN record
           /\ \E j \in 1..(k - 1) : toks[j].key = name

\* a component record with its description and without the override of it
CanonicalOnly(record) ==
    /\ Registered(record)
    /\ record_type(record) = 1
    /\ "COMPONENTDESCRIPTION" \in DOMAIN record
    /\ OverrideKey("COMPONENTDESCRIPTION") \notin DOMAIN record

\* C13: an override token appears only if its key is in the record and only
\* after its canonical token (a pin never emits %UTF8%SWAPIDPART without a
\* SWAPIDPART token before it), and a component record with COMPONENTDESCRIPTION
\* and no override of it is encoded, with the canonical token alone.
C13_OverrideOnlyWhenPresent ==
    [][/\ AtEncoded => OverridesAfterCanonical(data[pos], Appended)
       /\ (AtRecord /\ CanonicalOnly(data[pos]))
            => /\ pc' = "loop"
               /\ CountOf(Appended, {"COMPONENTDESCRIPTION"}) = 1
               /\ CountOf(Appended, WrittenOverrideKeys("COMPONENTDESCRIPTION")) = 0]_vars

\* C14: the key of every emitted override token is exactly %UTF8% followed by
\* the canonical field name, the key under which the override was read from the
\* record (%UTF8%TEXT, %UTF8%NAME for a parameter).
C14_OverrideKeySpelling ==
    [][AtEncoded
        => \A name \in OverrideNames : \A k \in 1..Len(Appended) :
             Appended[k].key \in WrittenOverrideKeys(name)
             => Appended[k].key = OverrideKey(name)]_vars

(***************************************************************************)
(* Omission of absent fields                                               *)
(***************************************************************************)
\* the types whose handlers give no field a default: polyline, polygon, arc,
\* line, power port, port, net label, junction, designator, parameter
OmissionTypes == {6, 7, 12, 13, 17, 18, 25, 29, 34, 41}

\* the optional fields of the handlers that give other fields a default
OptionalKeys(type) ==
    CASE type = 1 -> {"COMPONENTDESCRIPTION", "LIBRARYPATH", "SOURCELIBRARYNAME",
                      "SHEETPARTFILENAME", "TARGETFILENAME", "UNIQUEID",
                      "NOTUSEDBTABLENAME", "DESIGNITEMID", "DATABASETABLENAME",
                      "ALIASLIST"}
      [] type = 2 -> {"OWNERPARTDISPLAYMODE", "DESCRIPTION", "NAME", "DESIGNATOR",
                      "SWAPIDPIN", "%UTF8%SWAPIDPART"}
      [] OTHER -> {}

\* the key of the record a token was written for: the key of the token, but for
\* the two override tokens of a parameter, which are written under UTF8%TEXT and
\* UTF8%NAME for the keys %UTF8%TEXT and %UTF8%NAME
ReadKey(key) ==
    CASE key = "UTF8%TEXT" -> "%UTF8%TEXT"
      [] key = "UTF8%NAME" -> "%UTF8%NAME"
      [] OTHER -> key

FlagKeys ==
    {"ISNOTACCESIBLE", "ISSOLID", "WORDWRAP", "CLIPTORECT", "SHOWBORDER", "BORDERON",
     "TITLEBLOCKON", "SNAPGRIDON", "VISIBLEGRIDON", "USECUSTOMSHEET",
     "REFERENCEZONESON", "SHOWTEMPLATEGRAPHICS", "ISMIRRORED", "PARTIDLOCKED",
     "DESIGNATORLOCKED", "PINSMOVEABLE", "ISHIDDEN", "LOCKED", "SHOWNETNAME",
     "ISCROSSSHEETCONNECTOR", "NOTAUTOPOSITION", "SHOWNAME",
     "OVERRIDENOTAUTOPOSITION", "IGNOREONLOAD"}

\* C16: every boolean flag of every record type is rendered as the one
\* character T or F, whatever value the record carries for it (JSON true or
\* false, the texts T and F, another text); never True, False or the input text.
C16_FlagsAreTOrF ==
    [][AtEncoded
        => \A k \in 1..Len(Appended) :
             Appended[k].key \in FlagKeys
             => Appended[k].val \in {<<"T">>, <<"F">>}]_vars

\* the narrow-text (ASCII) string fields of pin and component records, the
\* UTF-8 string field of a hyperlink record
TextKeys(type) ==
    CASE type = 2 -> {"NAME", "DESIGNATOR", "DESCRIPTION", "SWAPIDPIN"}
      [] type = 1 -> {"LIBREFERENCE", "COMPONENTDESCRIPTION", "LIBRARYPATH",
                      "SOURCELIBRARYNAME", "SHEETPARTFILENAME", "TARGETFILENAME",
                      "UNIQUEID", "NOTUSEDBTABLENAME", "DESIGNITEMID",
                      "DATABASETABLENAME", "ALIASLIST"}
      [] type = 226 -> {"FILENAME"}
      [] OTHER -> {}

\* the text has a character outside ASCII
HasNonAscii(v) == v.t = "str" /\ \E k \in 1..Len(v.s) : v.s[k] = NonAscii

\* C17: a string field is emitted as the raw characters of its value and
\* nothing else, |KEY=v for the value v (pin NAME=A gives |NAME=A), without
\* quoting, prefix or escaping; and a record with a character outside ASCII in a
\* narrow-text field is not encoded.
C17_TextEmittedRaw ==
    [][/\ AtEncoded
            => \A key \in TextKeys(record_type(data[pos])) \cap DOMAIN data[pos] :
                 \E k \in 1..Len(Appended) :
                    /\ Appended[k].key = key
                    /\ Appended[k].val = utf8_bytes(data[pos][key].s)
       /\ (/\ AtRecord
           /\ Registered(data[pos])
           /\ \E key \in TextKeys(record_type(data[pos])) \cap DOMAIN data[pos] :
                record_type(data[pos]) # 226 /\ HasNonAscii(data[pos][key]))
            => stream' = stream]_vars

\* C18: a field that designator (34), parameter (41) and rectangle (14) give to
\* struct.pack('<I') is emitted, in a record that is encoded, as KEY= followed
\* by exactly four bytes b0..b3 with no text: the value v of the field, anywhere
\* in 0..2^32-1, is b0 + 256*b1 + 65536*b2 + 16777216*b3 (the top bit of b3 is
\* the 2^31 of v, the remaining 31 bits are the rest of v), and the value 1 is
\* the bytes 01 00 00 00, not the digit 1.
C18_PackedLittleEndian ==
    [][AtEncoded
         => \A key \in PackedKeys(record_type(data[pos])) \cap DOMAIN data[pos] :
              \E k \in 1..Len(Appended) :
                 LET b == Appended[k].raw
                     v == int(data[pos][key])
                 IN  /\ Appended[k].key = key
                     /\ Appended[k].val = <<>>
                     /\ Len(b) = 4
                     /\ \A i \in 1..4 : b[i] \in 0..255
                     /\ v.hi \in {0, 1}
                     /\ v.n >= 0
                     /\ b[4] \div 128 = v.hi
                     /\ b[1] + 256 * b[2] + 65536 * b[3] + 16777216 * (b[4] % 128) = v.n
                     /\ (v.hi = 0 /\ v.n = 1) => b = <<1, 0, 0, 0>>]_vars

\* a designator with OWNERINDEX 1 was encoded as the bytes 01 00 00 00
C18_Witness ==
    /\ pc = "done"
    /\ data = <<Rec({<<"RECORD", IntV(34)>>, <<"OWNERINDEX", IntV(1)>>})>>
    /\ stream = <<Tok("|", "RECORD", <<"3", "4">>),
                  TokRaw("|", "OWNERINDEX", <<>>, <<1, 0, 0, 0>>), NL>>

\* a rectangle with the largest value, 2^32-1, was encoded as ff ff ff ff
C18_WitnessLargest ==
    /\ pc = "done"
    /\ data = <<Rec({<<"RECORD", IntV(14)>>, <<"CORNER.X", BigV(1, 2147483647)>>})>>
    /\ stream = <<Tok("|", "RECORD", <<"1", "4">>),
                  TokRaw("|", "CORNER.X", <<>>, <<255, 255, 255, 255>>), NL>>

\* the bytes of the records before the one the loop is at
WrittenBefore == StreamOf(SubSeq(data, 1, pos - 1))

\* C19: on every way out of json_to_schdoc the stream and the container are
\* closed: once the stream is open it is eventually closed and the container
\* after it, also when a record failed to encode; an open container is
\* eventually closed; the closed stream begins with the bytes of the records
\* that were encoded before the failure, and nothing changes it any more.
C19_ClosedOnEveryExit ==
    /\ (streamState = "open") ~> (streamState = "closed" /\ oleState = "closed")
    /\ (oleState = "open") ~> (oleState = "closed")
    /\ [](streamState = "closed"
            => /\ Len(stream) >= Len(WrittenBefore)
               /\ SubSeq(stream, 1, Len(WrittenBefore)) = WrittenBefore)
    /\ [][streamState = "closed" => stream' = stream /\ streamState' = "closed"]_vars

\* the second record failed; the stream with the bytes of the first and the
\* container are closed
C19_Witness ==
    /\ pc = "raised"
    /\ pos = 2
    /\ EncodingOf(data[1]) # <<>>
    /\ SubSeq(stream, 1, Len(EncodingOf(data[1]))) = EncodingOf(data[1])
    /\ streamState = "closed"
    /\ oleState = "closed"

\* C20: opening the destination stream creates it when it is absent: with a
\* container that has no FileHeader stream, create_fileheader_stream opens the
\* stream and goes on to the records of the document; it does not fail.
C20_OpenCreatesStream ==
    [][(pc = "start" /\ ~hasFileHeader)
         => (pc' = "loop" /\ streamState' = "open" /\ exc' = "")]_vars

\* the write that fails has been made
WriteFailed == failAt > 0 /\ writes >= failAt

\* C21: a failure of a write to the stream is fatal: once a write has failed,
\* whatever the record that was being written (a rectangle as well), the
\* operation has ended with the error, so that no later record is written.
C21_WriteFailureIsFatal == WriteFailed => (pc = "raised" /\ exc = "OSError")

\* C22: the stream receives exactly one write for a document, after every
\* record of it has been processed: while the loop is still at the records
\* nothing has been written, and when the loop is over and the stream is closed
\* one write has been made.
C22_SingleWriteAtEnd ==
    /\ pc = "loop" => (writes = 0 /\ stream = <<>>)
    /\ (pc \in {"done", "returned"} /\ streamState = "closed") => writes = 1

\* C23: the encode of a document returns a summary with the numbers of
\* encoded, skipped and failed records, and the three numbers add up to the
\* number of records of the document.
C23_SummaryAccountsForRecords ==
    pc = "returned"
      => /\ returned.kind = "summary"
         /\ returned.encoded + returned.skipped + returned.failed = Len(data)

\* C24: the bytes of every record that is encoded are tokens |KEY=VALUE, each
\* introduced by exactly one | and with a key, and then the separator: there
\* are no two | in a row and no empty token, in the coordinate tokens of a
\* polyline as elsewhere.
C24_OnePipePerToken ==
    [][AtEncoded
         => \A k \in 1..Len(Appended) :
              \/ Appended[k] = NL
              \/ Appended[k].lead = "|" /\ Appended[k].key # ""]_vars

\* the separators in a sequence of tokens
Separators(toks) == {k \in 1..Len(toks) : toks[k] = NL}

\* the records of a document that a registered handler encodes without an error
EncodedRecords(doc) ==
    {k \in 1..Len(doc) : Registered(doc[k]) /\ Handled(doc[k]).exc = ""}

\* C25: every record that a registered handler encodes without an error is
\* followed in the stream by exactly one separator: when the driver has
\* finished, the stream holds as many separators as records were encoded,
\* whatever their type codes.
C25_OneSeparatorPerRecord ==
    pc = "done" => Cardinality(Separators(stream)) = Cardinality(EncodedRecords(data))

C27_AppendOnlyOncePerRecord ==
    /\ [][/\ Len(stream') >= Len(stream)
          /\ SubSeq(stream', 1, Len(stream)) = stream]_vars
    /\ [][stream' # stream
            => AtRecord /\ (pos' = pos + 1 \/ (pos' = pos /\ pc' = "raised"))]_vars
    /\ [][pos' >= pos]_vars
    /\ [][pc # "loop" => stream' = stream]_vars

\* the loop has written the first record and is at the second
C27_Witness ==
    /\ pc = "loop"
    /\ pos = 2
    /\ Len(data) = 2
    /\ stream # <<>>
    /\ stream = EncodingOf(data[1])

\* C28: encoding leaves its inputs as they were: no step changes the document,
\* neither a key or a value of a record nor the order of the records, and the
\* registry record_handlers has its 44 type codes.
C28_InputsUnchanged ==
    /\ [][data' = data]_vars
    /\ [](Cardinality(DOMAIN record_handlers) = 44)

\* a document of two records was encoded to the end
C28_Witness ==
    /\ pc = "returned"
    /\ Len(data) = 2
    /\ Cardinality(EncodedRecords(data)) = 2
    /\ Cardinality(Separators(stream)) = 2

\* the records of a document that have a type code
Typed(doc) == SelectSeq(doc, HasType)

\* C29: a record with no RECORD key, or with a RECORD that is not the text of
\* a number, is skipped: the step on it writes nothing and the loop goes on
\* with the next record, and when the driver has finished the stream is the
\* one of the document without such records.
C29_UntypedRecordSkipped ==
    /\ [][(AtRecord /\ ~HasType(data[pos]))
            => (stream' = stream /\ pc' = "loop" /\ pos' = pos + 1)]_vars
    /\ [](pc = "done" => stream = StreamOf(Typed(data)))

\* a record without a type code, then one that is encoded: only the second is
\* in the stream
C29_Witness ==
    /\ pc = "done"
    /\ Len(data) = 2
    /\ ~HasType(data[1])
    /\ EncodingOf(data[2]) # <<>>
    /\ stream = EncodingOf(data[2])

\* the packed fields of a record, as int() gives them
PackedOf(record) ==
    {int(record[key]) : key \in PackedKeys(record_type(record)) \cap DOMAIN record}

\* below 0, or 2^32 and above
OutOfRange(v) == v.exc = "" /\ (v.n < 0 \/ v.hi > 1)

\* C30: packed fields take the values 0..2^32-1 and no other: a designator,
\* parameter or rectangle record with a packed field below 0 (OWNERPARTID=-1)
\* or of 2^32 or more is not encoded to four wrapped-around bytes; its handler
\* raises struct.error, which neither the handler nor the loop of the driver
\* catches, so that the loop ends with it and the record writes nothing.  A
\* record of these types with nothing but packed fields, all of them numbers of
\* 0..2^32-1, is encoded.
C30_PackedRangeEnforced ==
    [][/\ (AtRecord /\ Registered(data[pos]) /\ \E v \in PackedOf(data[pos]) : OutOfRange(v))
           => /\ pc' = "raised"
              /\ exc' = "struct.error"
              /\ pos' = pos
              /\ stream' = stream
       /\ (/\ AtRecord
           /\ Registered(data[pos])
           /\ record_type(data[pos]) \in {14, 34, 41}
           /\ DOMAIN data[pos] \subseteq PackedKeys(record_type(data[pos])) \cup {"RECORD"}
           /\ \A v \in PackedOf(data[pos]) : v.exc = "" /\ ~OutOfRange(v))
           => pc' = "loop" /\ pos' = pos + 1 /\ stream' # stream]_vars

\* a designator with OWNERPARTID=-1 ended the run with struct.error
C30_Witness ==
    /\ pc = "raised"
    /\ exc = "struct.error"
    /\ data = <<Rec({<<"RECORD", IntV(34)>>, <<"OWNERPARTID", IntV(-1)>>})>>
    /\ stream = <<>>

\* and so did a rectangle with a corner at 2^32
C30_WitnessLarge ==
    /\ pc = "raised"
    /\ exc = "struct.error"
    /\ data = <<Rec({<<"RECORD", IntV(14)>>, <<"CORNER.X", BigV(2, 0)>>})>>
    /\ stream = <<>>
====
